---- MODULE Spec2Model ----
(***************************************************************************)
(* Attendance & geofencing engine of osus-server: the tRPC handlers of     *)
(* src/routers.ts over the database functions of the db module             *)
(* (src/unnamed/part_000) and the tables of src/drizzle/schema.ts.         *)
(*                                                                         *)
(* Time is counted in minutes since 00:00 UTC of day 0.  Coordinates are   *)
(* metres of arc along the zero meridian: every point and zone centre has  *)
(* longitude 0, where the haversine distance of two points is exactly the  *)
(* difference of their latitudes.                                          *)
(***************************************************************************)
EXTENDS Integers, Sequences, FiniteSets, TLC

\* ---------------------------------------------------------------- bounds
MaxTicks == 1          \* minutes the clock may advance after StartTime
MaxMods == 1           \* rows the attendance_modifications table may hold
MaxRequests == 2       \* rows the leave_requests table may hold
MaxYears == 1          \* times the calendar year may change
MaxTasks == 3          \* rows the field_tasks table may hold
MaxRecords == 2        \* rows of attendance_records addManual may extend
MaxLocations == 2      \* rows the location_tracking table may hold
MaxDays == 2                       \* calendar days (UTC) the clock may span

\* ------------------------------------------------------ program constants
MinutesPerDay == 24 * 60
TzOffsetMinutes == 3 * 60          \* now.getTime() + 3 * 60 * 60 * 1000
EarlyCheckoutMinutes == 2 * 60     \* setHours(getHours() - 2)
ServerTzOffsetMinutes == 0   \* zone of the server process (setHours is local)
NULL == 0 - 1                      \* SQL NULL of a nullable numeric/timestamp column
NoDevice == "NULL"                 \* absent deviceId / NULL registeredDeviceId
NoMethod == "NULL"                 \* NULL checkInMethod / checkOutMethod
NoRow == 0                         \* "no row" result of a limit-1 select
NoText == "NULL"                   \* NULL of a nullable text column
BaseYear == 2026                   \* getFullYear() of day 0
DaysPerYear == 365

\* ------------------------------------------------------------ sample data
StartTime == 5 * 60 + 15           \* 05:15 UTC = 08:15 in UTC+3
Employees == {1, 2}                \* employees.id = employeeCode = linked user
EmployeeRefs == Employees \cup {9} \* 9: a code / user that resolves to no employee
DeviceIds == {"D1", "D2"}
Methods == {"face", "fingerprint"}
Latitudes == {0, 200}
Dates == {0, 1}                    \* dates an administrator may name
AdminTimes == {StartTime}          \* instants an administrator may name
Admin == [id |-> 100, role |-> "admin"]
PlainUser == [id |-> 101, role |-> "user"]
Actors == {Admin, PlainUser}
Clients == {"A", "B"}              \* clients whose requests may overlap

\* rows of the employees table that no modelled handler writes
employees ==
  [e \in Employees |->
     [id |-> e,
      fingerprintEnabled |-> (e = 1),
      faceDataId |-> IF e = 2 THEN "face-2" ELSE "NULL",
      branchId |-> IF e = 1 THEN 1 ELSE NULL,
      role |-> IF e = 2 THEN "branch_manager" ELSE "employee",
      status |-> "active"]]

Zone(name, lat, radius, active) ==
  [name |-> name, latitude |-> lat, longitude |-> 0,
   radiusMeters |-> radius, isActive |-> active]

DefaultSettings ==
  [workStartTime |-> <<8, 0>>, workEndTime |-> <<17, 0>>,
   lateThresholdMinutes |-> 15]

VARIABLES
  now,                     \* the system clock (new Date())
  attendanceRecords,       \* table attendance_records, row id = index
  attendanceModifications, \* table attendance_modifications, row id = index
  registeredDeviceId,      \* employees.registeredDeviceId
  deviceRegisteredAt,      \* employees.deviceRegisteredAt
  workZones,               \* table work_zones
  workSettings,            \* table work_settings (at most one row is read)
  notifications,           \* rows the latest handler inserted into the
                           \* admin_notifications / branch_notifications tables
  last,                    \* the latest request and its response
  leaveRequests,           \* table leave_requests, row id = index
  leaveBalances,           \* table leave_balances, row id = index
  fieldTasks,              \* table field_tasks, row id = index
  sinkUp,                  \* the notification tables accept inserts
  secondWriteFails,        \* the connection is lost after the first write of
                           \* an administrative correction
  locationTracking,        \* table location_tracking, row id = index
  calls                    \* per client: the request it has in flight (what
                           \* the handler read before its next await) or
                           \* the response of its latest request

attVars == <<attendanceRecords, attendanceModifications>>
devVars == <<registeredDeviceId, deviceRegisteredAt>>
envVars == <<workZones, workSettings>>
leaveVars == <<leaveRequests, leaveBalances>>
\* what the attendance, device and geofence handlers never touch
faultVars == <<sinkUp, secondWriteFails>>
trackVars == <<locationTracking, calls>>
hrVars == <<leaveVars, fieldTasks, faultVars, trackVars>>
vars == <<now, attVars, devVars, envVars, notifications, last, hrVars>>

\* ---------------------------------------------------------------- helpers
\* a client with no request yet
Idle == [state |-> "idle"]

Abs(x) == IF x < 0 THEN 0 - x ELSE x

\* new Date().toISOString().split('T')[0]: the UTC calendar day
IsoDate(t) == t \div MinutesPerDay

\* the request a handler received (its name, the employee reference, the
\* presented latitude and deviceId) together with its response
Response(op, emp, res, recordId) ==
  [op |-> op, emp |-> emp, latitude |-> NULL, deviceId |-> NoDevice,
   res |-> res, recordId |-> recordId]

\* a response together with the fields of the request that decide it
Request(op, emp, res, recordId, input) ==
  [op |-> op, emp |-> emp, latitude |-> NULL, deviceId |-> NoDevice,
   res |-> res, recordId |-> recordId, input |-> input]

Reply(op, emp, latitude, deviceId, res, recordId) ==
  [op |-> op, emp |-> emp, latitude |-> latitude, deviceId |-> deviceId,
   res |-> res, recordId |-> recordId]

\* the error a handler ends with when it awaits a notification insert and would
\* then throw res (or return it): the insert's own error when the insert fails
Awaited(res) == IF sinkUp THEN res ELSE "NotificationError"

\* the rows a handler's notification inserts leave in the notification tables
Emitted(notes) == IF sinkUp THEN notes ELSE <<>>

AdminNote(type, e) == [table |-> "admin", type |-> type, employeeId |-> e]
BranchNote(type, e) == [table |-> "branch", type |-> type, employeeId |-> e]

\* db.update(attendanceRecords).set(data).where(eq(id))
updateAttendanceRecord(id, data) ==
  [attendanceRecords EXCEPT ![id] =
     [f \in DOMAIN @ |-> IF f \in DOMAIN data THEN data[f] ELSE @[f]]]

NewRecord(e, date, cin, clat, cmethod, cout, status) ==
  [employeeId |-> e, date |-> date,
   checkInTime |-> cin, checkInLatitude |-> clat, checkInMethod |-> cmethod,
   checkOutTime |-> cout, checkOutLatitude |-> NULL, checkOutMethod |-> NoMethod,
   status |-> status]

\* rows a select for (employeeId, today) limit 1 may return: the query has no
\* ORDER BY, so any matching row; NoRow when none matches
getTodayAttendance(e) ==
  LET hits == {i \in DOMAIN attendanceRecords :
                 /\ attendanceRecords[i].employeeId = e
                 /\ attendanceRecords[i].date = IsoDate(now)}
  IN  IF hits = {} THEN {NoRow} ELSE hits

\* what a caller of the db function getTodayAttendance receives: the row, or
\* the JavaScript value null when the select is empty (or there is no
\* database); the function has no path that returns undefined
JsNull == "null"
JsUndefined == "undefined"

TodayAttendanceValue(row) ==
  IF row = NoRow
  THEN [type |-> JsNull, recordId |-> NoRow]
  ELSE [type |-> "object", recordId |-> row]

\* a call of db.getTodayAttendance(employeeId), as attendance.today makes it
GetTodayAttendance(employeeId) ==
  /\ UNCHANGED <<now, attVars, devVars, envVars, hrVars>>
  /\ notifications' = <<>>
  /\ \E row \in getTodayAttendance(employeeId) :
        last' = [op |-> "getTodayAttendance", emp |-> employeeId,
                 latitude |-> NULL, deviceId |-> NoDevice, res |-> "ok",
                 recordId |-> row, body |-> TodayAttendanceValue(row)]

\* ------------------------------------------------------ GeoFence evaluator
\* haversine distance in metres of two points of one meridian (dLon = 0):
\* a = sin^2(dLat/2), c = 2 * atan2(sqrt(a), sqrt(1 - a)) = |dLat| and R * c
\* is the arc between the two latitudes
calculateDistance(lat1, lon1, lat2, lon2) == Abs(lat2 - lat1)

\* select ... where isActive = true
getActiveWorkZonesOf(zones) ==
  SelectSeq(zones, LAMBDA z : z.isActive)

getActiveWorkZones == getActiveWorkZonesOf(workZones)

\* the loop of isLocationInWorkZone over zones[i..]: first containing zone
RECURSIVE FirstZone(_, _, _, _)
FirstZone(zones, i, latitude, longitude) ==
  IF i > Len(zones) THEN [inZone |-> FALSE, zoneName |-> "NULL"]
  ELSE IF calculateDistance(latitude, longitude,
                            zones[i].latitude, zones[i].longitude)
            <= zones[i].radiusMeters
       THEN [inZone |-> TRUE, zoneName |-> zones[i].name]
       ELSE FirstZone(zones, i + 1, latitude, longitude)

isLocationInWorkZoneOf_EveryZone(zones, latitude, longitude) == FirstZone(zones, 1, latitude, longitude)

isLocationInWorkZoneOf(zones, latitude, longitude) ==
  FirstZone(getActiveWorkZonesOf(zones), 1, latitude, longitude)

isLocationInWorkZone(latitude, longitude) ==
  isLocationInWorkZoneOf(workZones, latitude, longitude)

\* --------------------------------------------------------- Device trust guard
checkEmployeeDevice_AlwaysMatch(e, deviceId) ==
  IF e \notin Employees \/ registeredDeviceId[e] = NoDevice
  THEN [isRegistered |-> FALSE, isMatch |-> FALSE, registeredDeviceId |-> NoDevice]
  ELSE [isRegistered |-> TRUE, isMatch |-> TRUE,
        registeredDeviceId |-> registeredDeviceId[e]]

checkEmployeeDevice(e, deviceId) ==
  IF e \notin Employees \/ registeredDeviceId[e] = NoDevice
  THEN [isRegistered |-> FALSE, isMatch |-> FALSE, registeredDeviceId |-> NoDevice]
  ELSE [isRegistered |-> TRUE, isMatch |-> (registeredDeviceId[e] = deviceId),
        registeredDeviceId |-> registeredDeviceId[e]]

\* the employees row after registerEmployeeDevice
registerEmployeeDevice(e, deviceId) ==
  /\ registeredDeviceId' = [registeredDeviceId EXCEPT ![e] = deviceId]
  /\ deviceRegisteredAt' = [deviceRegisteredAt EXCEPT ![e] = now]

clearEmployeeDevice_KeepsId(id) ==
  /\ registeredDeviceId' = registeredDeviceId
  /\ deviceRegisteredAt' =
       [e \in Employees |-> IF e = id THEN NULL ELSE deviceRegisteredAt[e]]

clearEmployeeDevice(id) ==
  /\ registeredDeviceId' =
       [e \in Employees |-> IF e = id THEN NoDevice ELSE registeredDeviceId[e]]
  /\ deviceRegisteredAt' =
       [e \in Employees |-> IF e = id THEN NULL ELSE deviceRegisteredAt[e]]

\* -------------------------------------------------------------- lateness
\* minutes since midnight of instant t in the fixed UTC+3 offset
LocalMinutes(t) == (t + TzOffsetMinutes) % MinutesPerDay

LateThreshold(settings) ==
  settings.workStartTime[1] * 60 + settings.workStartTime[2]
    + settings.lateThresholdMinutes

IsLate_AtThreshold(t, settings) == LocalMinutes(t) >= LateThreshold(settings)

IsLate(t, settings) == LocalMinutes(t) > LateThreshold(settings)

\* status of a check-in at instant t; getWorkSettings() reads the first row
CheckInStatus_HalfDay(t) == IF workSettings # <<>> /\ IsLate(t, workSettings[1]) THEN "half_day" ELSE "present"

CheckInStatus(t) ==
  IF workSettings # <<>> /\ IsLate(t, workSettings[1]) THEN "late" ELSE "present"

\* ----------------------------------------------------------------- guards
\* deviceCheck.isRegistered && !deviceCheck.isMatch, for a request with deviceId
DeviceMismatch(e, deviceId) ==
  /\ deviceId # NoDevice
  /\ checkEmployeeDevice(e, deviceId).isRegistered
  /\ ~checkEmployeeDevice(e, deviceId).isMatch

\* existing?.checkInTime
AlreadyCheckedIn_AfterCheckOut(existing) ==
  existing # NoRow /\ attendanceRecords[existing].checkOutTime # NULL

AlreadyCheckedIn(existing) ==
  existing # NoRow /\ attendanceRecords[existing].checkInTime # NULL

\* hasActiveZones && !locationCheck.inZone
OutsideWorkZone_NoZoneCount(latitude, longitude) ==
  ~isLocationInWorkZone(latitude, longitude).inZone

OutsideWorkZone(latitude, longitude) ==
  /\ Len(getActiveWorkZones) > 0
  /\ ~isLocationInWorkZone(latitude, longitude).inZone

\* !existing?.checkInTime (checkOutByCode)
NoCheckInByCode(existing) ==
  existing = NoRow \/ attendanceRecords[existing].checkInTime = NULL

\* !existing (checkOut)
NoCheckInSession(existing) == existing = NoRow

\* existing.checkOutTime
AlreadyCheckedOut_Never(existing) == FALSE

AlreadyCheckedOut(existing) == attendanceRecords[existing].checkOutTime # NULL

\* ---------------------------------------------------------------- check-in
\* a check-in after the already-checked-in guard: geofence, lateness and the
\* write; existing is the row the handler read (NoRow: it inserts)
CheckInWrite(op, e, latitude, longitude, method, deviceId, existing) ==
  IF OutsideWorkZone(latitude, longitude)
  THEN /\ last' = Reply(op, e, latitude, deviceId,
                        Awaited("OutsideWorkZone"), NoRow)
       /\ notifications' = Emitted(<<AdminNote("outside_zone", e)>>)
       /\ UNCHANGED attVars
  ELSE LET status == CheckInStatus(now) IN
       IF status = "late" /\ ~sinkUp
       THEN /\ last' = Reply(op, e, latitude, deviceId, "NotificationError", NoRow)
            /\ notifications' = <<>>
            /\ UNCHANGED attVars
       ELSE
       /\ notifications' =
            IF status = "late" THEN <<AdminNote("late", e)>> ELSE <<>>
       /\ UNCHANGED attendanceModifications
       /\ IF existing # NoRow
          THEN /\ attendanceRecords' =
                    updateAttendanceRecord(existing,
                      [checkInTime |-> now, checkInLatitude |-> latitude,
                       checkInMethod |-> method, status |-> status])
               /\ last' = Reply(op, e, latitude, deviceId, "ok", existing)
          ELSE /\ attendanceRecords' =
                    Append(attendanceRecords,
                      NewRecord(e, IsoDate(now), now, latitude, method,
                                NULL, status))
               /\ last' = Reply(op, e, latitude, deviceId, "ok", Len(attendanceRecords) + 1)

\* the part both check-in handlers share, from the already-checked-in guard
\* to the write; existing is the row getTodayAttendance returned
CheckInTail(op, e, latitude, longitude, method, deviceId, existing) ==
  IF AlreadyCheckedIn(existing)
  THEN /\ last' = Reply(op, e, latitude, deviceId, "AlreadyCheckedIn", NoRow)
       /\ notifications' = <<>>
       /\ UNCHANGED attVars
  ELSE CheckInWrite(op, e, latitude, longitude, method, deviceId, existing)

\* attendance.checkInByCode; deviceId = NoDevice when the input has none
CheckInByCode(code, latitude, longitude, method, deviceId) ==
  /\ UNCHANGED <<now, envVars, hrVars>>
  /\ IF code \notin Employees
     THEN /\ last' = Reply("checkInByCode", code, latitude, deviceId,
                               "NotFound", NoRow)
          /\ notifications' = <<>>
          /\ UNCHANGED <<attVars, devVars>>
     ELSE LET deviceCheck == checkEmployeeDevice(code, deviceId) IN
          IF DeviceMismatch(code, deviceId)
          THEN /\ last' = Reply("checkInByCode", code, latitude, deviceId,
                               Awaited("DeviceUnauthorized"), NoRow)
               /\ notifications' = Emitted(<<AdminNote("device_mismatch", code)>>)
               /\ UNCHANGED <<attVars, devVars>>
          ELSE /\ IF deviceId # NoDevice /\ ~deviceCheck.isRegistered
                  THEN registerEmployeeDevice(code, deviceId)
                  ELSE UNCHANGED devVars
               /\ \E existing \in getTodayAttendance(code) :
                    CheckInTail("checkInByCode", code, latitude, longitude,
                                method, deviceId, existing)

\* a request of attendance.checkInByCode that has read today's record and
\* passed the already-checked-in guard, and has not written yet
Reading(code, latitude, longitude, method, deviceId, existing) ==
  [state |-> "reading", op |-> "checkInByCode", emp |-> code,
   latitude |-> latitude, longitude |-> longitude, method |-> method,
   deviceId |-> deviceId, existing |-> existing]

\* a finished request: what it had read and its response
Done(op, emp, existing, res) ==
  [state |-> "done", op |-> op, emp |-> emp, existing |-> existing,
   res |-> res]

\* attendance.checkInByCode of client p up to the await that follows its read
\* of today's record: employee lookup, device binding, getTodayAttendance and
\* the already-checked-in guard
CheckInByCodeBegin(p, code, latitude, longitude, method, deviceId) ==
  /\ calls[p].state # "reading"
  /\ UNCHANGED <<now, envVars, attVars, leaveVars, fieldTasks, faultVars,
                 locationTracking>>
  /\ IF code \notin Employees
     THEN /\ last' = Reply("checkInByCode", code, latitude, deviceId,
                           "NotFound", NoRow)
          /\ notifications' = <<>>
          /\ calls' = [calls EXCEPT ![p] =
                         Done("checkInByCode", code, NoRow, "NotFound")]
          /\ UNCHANGED devVars
     ELSE LET deviceCheck == checkEmployeeDevice(code, deviceId) IN
          IF DeviceMismatch(code, deviceId)
          THEN /\ last' = Reply("checkInByCode", code, latitude, deviceId,
                                Awaited("DeviceUnauthorized"), NoRow)
               /\ notifications' = Emitted(<<AdminNote("device_mismatch", code)>>)
               /\ calls' = [calls EXCEPT ![p] =
                              Done("checkInByCode", code, NoRow,
                                   Awaited("DeviceUnauthorized"))]
               /\ UNCHANGED devVars
          ELSE /\ IF deviceId # NoDevice /\ ~deviceCheck.isRegistered
                  THEN registerEmployeeDevice(code, deviceId)
                  ELSE UNCHANGED devVars
               /\ \E existing \in getTodayAttendance(code) :
                    IF AlreadyCheckedIn(existing)
                    THEN /\ last' = Reply("checkInByCode", code, latitude,
                                          deviceId, "AlreadyCheckedIn", NoRow)
                         /\ notifications' = <<>>
                         /\ calls' = [calls EXCEPT ![p] =
                                        Done("checkInByCode", code, existing,
                                             "AlreadyCheckedIn")]
                    ELSE /\ calls' = [calls EXCEPT ![p] =
                                        Reading(code, latitude, longitude,
                                                method, deviceId, existing)]
                         /\ UNCHANGED <<last, notifications>>

\* the rest of that request: geofence, lateness and the write, with the row
\* it read at its beginning
CheckInByCodeEnd(p) ==
  /\ calls[p].state = "reading"
  /\ calls[p].op = "checkInByCode"
  /\ UNCHANGED <<now, envVars, devVars, leaveVars, fieldTasks, faultVars,
                 locationTracking>>
  /\ CheckInWrite("checkInByCode", calls[p].emp, calls[p].latitude,
                  calls[p].longitude, calls[p].method, calls[p].deviceId,
                  calls[p].existing)
  /\ calls' = [calls EXCEPT ![p] =
                 Done("checkInByCode", calls[p].emp, calls[p].existing,
                      last'.res)]

\* a request of attendance.checkInByCode with a deviceId whose
\* checkEmployeeDevice found no registered device, and which has not called
\* registerEmployeeDevice yet
Binding(code, latitude, longitude, method, deviceId) ==
  [state |-> "binding", op |-> "checkInByCode", emp |-> code,
   latitude |-> latitude, longitude |-> longitude, method |-> method,
   deviceId |-> deviceId]

\* attendance.checkInByCode of client p up to the await that follows
\* checkEmployeeDevice. A request without deviceId, for an unknown employee
\* or for an employee with a registered device never registers: the whole
\* handler runs.
CheckDeviceBegin(p, code, latitude, longitude, method, deviceId) ==
  /\ calls[p].state \notin {"reading", "deciding", "binding"}
  /\ IF \/ code \notin Employees
        \/ deviceId = NoDevice
        \/ checkEmployeeDevice(code, deviceId).isRegistered
     THEN CheckInByCode(code, latitude, longitude, method, deviceId)
     ELSE /\ calls' = [calls EXCEPT ![p] =
                         Binding(code, latitude, longitude, method, deviceId)]
          /\ UNCHANGED <<now, attVars, devVars, envVars, leaveVars,
                         fieldTasks, faultVars, locationTracking, last,
                         notifications>>

\* the rest of that request: registerEmployeeDevice (an update keyed on the
\* employee id alone), then the handler from getTodayAttendance on
CheckDeviceEnd(p) ==
  LET c == calls[p] IN
  /\ c.state = "binding"
  /\ UNCHANGED <<now, envVars, leaveVars, fieldTasks, faultVars,
                 locationTracking>>
  /\ registerEmployeeDevice(c.emp, c.deviceId)
  /\ \E existing \in getTodayAttendance(c.emp) :
        /\ CheckInTail("checkInByCode", c.emp, c.latitude, c.longitude,
                       c.method, c.deviceId, existing)
        /\ calls' = [calls EXCEPT ![p] =
                       Done("checkInByCode", c.emp, existing, last'.res)]

\* the biometric-method guard of the session handlers
MethodRegistered(e, method) ==
  /\ method = "fingerprint" => employees[e].fingerprintEnabled
  /\ method = "face" => employees[e].faceDataId # "NULL"

\* attendance.checkIn; user is the employee linked to ctx.user
CheckIn(user, latitude, longitude, method) ==
  /\ UNCHANGED <<now, envVars, hrVars, devVars>>
  /\ IF user \notin Employees
     THEN /\ last' = Reply("checkIn", user, latitude, NoDevice,
                               "NotFound", NoRow)
          /\ notifications' = <<>>
          /\ UNCHANGED attVars
     ELSE IF ~MethodRegistered(user, method)
     THEN /\ last' = Reply("checkIn", user, latitude, NoDevice,
                               "BiometricNotRegistered", NoRow)
          /\ notifications' = <<>>
          /\ UNCHANGED attVars
     ELSE \E existing \in getTodayAttendance(user) :
            CheckInTail("checkIn", user, latitude, longitude, method,
                        NoDevice, existing)

\* --------------------------------------------------------------- check-out
\* attendance.checkOutByCode
CheckOutByCode(code, latitude, longitude, method, deviceId) ==
  /\ UNCHANGED <<now, envVars, hrVars, devVars, attendanceModifications>>
  /\ IF code \notin Employees
     THEN /\ last' = Reply("checkOutByCode", code, latitude, deviceId,
                               "NotFound", NoRow)
          /\ notifications' = <<>>
          /\ UNCHANGED attendanceRecords
     ELSE IF DeviceMismatch(code, deviceId)
          THEN /\ last' = Reply("checkOutByCode", code, latitude, deviceId,
                               Awaited("DeviceUnauthorized"), NoRow)
               /\ notifications' = Emitted(<<AdminNote("device_mismatch", code)>>)
               /\ UNCHANGED attendanceRecords
          ELSE \E existing \in getTodayAttendance(code) :
               IF NoCheckInByCode(existing)
               THEN /\ last' = Reply("checkOutByCode", code, latitude, deviceId,
                               "NoCheckInToday", NoRow)
                    /\ notifications' = <<>>
                    /\ UNCHANGED attendanceRecords
               ELSE IF AlreadyCheckedOut(existing)
               THEN /\ last' = Reply("checkOutByCode", code, latitude, deviceId,
                               "AlreadyCheckedOut", NoRow)
                    /\ notifications' = <<>>
                    /\ UNCHANGED attendanceRecords
               ELSE /\ attendanceRecords' =
                         updateAttendanceRecord(existing,
                           [checkOutTime |-> now, checkOutLatitude |-> latitude,
                            checkOutMethod |-> method])
                    /\ notifications' =
                         Emitted((IF employees[code].branchId # NULL
                                  THEN <<BranchNote("employee_check_out", code)>>
                                  ELSE <<>>)
                                 \o <<AdminNote("early_checkout", code)>>)
                    /\ last' = Reply("checkOutByCode", code, latitude, deviceId,
                               "ok", existing)

\* the instant two hours before today's workEndTime, "today" and the end time
\* being taken in the zone of the server process
TwoHoursBeforeEnd(t, settings) ==
  ((t + ServerTzOffsetMinutes) \div MinutesPerDay) * MinutesPerDay
    - ServerTzOffsetMinutes
    + settings.workEndTime[1] * 60 + settings.workEndTime[2]
    - EarlyCheckoutMinutes

IsEarlyCheckout(t) ==
  workSettings # <<>> /\ t < TwoHoursBeforeEnd(t, workSettings[1])

\* attendance.checkOut; user is the employee linked to ctx.user
CheckOut(user, latitude, longitude, method) ==
  /\ UNCHANGED <<now, envVars, hrVars, devVars, attendanceModifications>>
  /\ IF user \notin Employees
     THEN /\ last' = Reply("checkOut", user, latitude, NoDevice,
                               "NotFound", NoRow)
          /\ notifications' = <<>>
          /\ UNCHANGED attendanceRecords
     ELSE IF ~MethodRegistered(user, method)
     THEN /\ last' = Reply("checkOut", user, latitude, NoDevice,
                               "BiometricNotRegistered", NoRow)
          /\ notifications' = <<>>
          /\ UNCHANGED attendanceRecords
     ELSE \E existing \in getTodayAttendance(user) :
          IF NoCheckInSession(existing)
          THEN /\ last' = Reply("checkOut", user, latitude, NoDevice,
                               "NoCheckInToday", NoRow)
               /\ notifications' = <<>>
               /\ UNCHANGED attendanceRecords
          ELSE IF AlreadyCheckedOut(existing)
          THEN /\ last' = Reply("checkOut", user, latitude, NoDevice,
                               "AlreadyCheckedOut", NoRow)
               /\ notifications' = <<>>
               /\ UNCHANGED attendanceRecords
          ELSE IF IsEarlyCheckout(now) /\ ~sinkUp
          THEN /\ last' = Reply("checkOut", user, latitude, NoDevice,
                               "NotificationError", NoRow)
               /\ notifications' = <<>>
               /\ UNCHANGED attendanceRecords
          ELSE /\ notifications' =
                    IF IsEarlyCheckout(now)
                    THEN <<AdminNote("early_checkout", user)>> ELSE <<>>
               /\ attendanceRecords' =
                    updateAttendanceRecord(existing,
                      [checkOutTime |-> now, checkOutLatitude |-> latitude,
                       checkOutMethod |-> method])
               /\ last' = Reply("checkOut", user, latitude, NoDevice,
                               "ok", existing)

\* ------------------------------------------------------------ device reset
\* employee.resetDevice: no role check, no reason
ResetDevice(id) ==
  /\ clearEmployeeDevice(id)
  /\ last' = Response("resetDevice", id, "ok", NoRow)
  /\ notifications' = <<>>
  /\ UNCHANGED <<now, envVars, hrVars, attVars>>

\* ------------------------------------------------- attendance corrections
IsManager(actor) == actor.role = "admin" \/ actor.role = "branch_manager"

AuditRow_ForgetsCheckOut(attendanceId, modifiedBy, type, prevIn, prevOut, newIn, newOut) ==
  [attendanceId |-> attendanceId, modifiedBy |-> modifiedBy,
   modificationType |-> type,
   previousCheckIn |-> prevIn, previousCheckOut |-> NULL,
   newCheckIn |-> newIn, newCheckOut |-> newOut, reason |-> "fix"]

AuditRow(attendanceId, modifiedBy, type, prevIn, prevOut, newIn, newOut) ==
  [attendanceId |-> attendanceId, modifiedBy |-> modifiedBy,
   modificationType |-> type,
   previousCheckIn |-> prevIn, previousCheckOut |-> prevOut,
   newCheckIn |-> newIn, newCheckOut |-> newOut, reason |-> "fix"]

createAttendanceModification_Twice(row) == Append(Append(attendanceModifications, row), row)

createAttendanceModification(row) == Append(attendanceModifications, row)

\* attendanceManagement.modify over modifyAttendanceRecord; the handler passes
\* null (NULL) for a time the input leaves out
Modify(actor, attendanceId, newCheckIn, newCheckOut) ==
  /\ UNCHANGED <<now, envVars, hrVars, devVars>>
  /\ notifications' = <<>>
  /\ IF ~IsManager(actor)
     THEN /\ last' = Response("modify", NoRow, "Forbidden", attendanceId)
          /\ UNCHANGED attVars
     ELSE IF attendanceId \notin DOMAIN attendanceRecords
     THEN /\ last' = Response("modify", NoRow, "RecordNotFound", attendanceId)
          /\ UNCHANGED attVars
     ELSE LET current == attendanceRecords[attendanceId] IN
          /\ Len(attendanceModifications) < MaxMods
          /\ attendanceModifications' =
               createAttendanceModification(
                 AuditRow(attendanceId, actor.id, "edit",
                          current.checkInTime, current.checkOutTime,
                          newCheckIn, newCheckOut))
          /\ IF secondWriteFails
             THEN /\ UNCHANGED attendanceRecords
                  /\ last' = Response("modify", current.employeeId, "DbError",
                                      attendanceId)
             ELSE /\ attendanceRecords' =
                       updateAttendanceRecord(attendanceId,
                         [checkInTime |-> newCheckIn,
                          checkOutTime |-> newCheckOut])
                  /\ last' = Response("modify", current.employeeId, "ok",
                                      attendanceId)

\* attendanceManagement.addManual over addManualAttendance
AddManual(actor, employeeId, date, checkInTime, checkOutTime) ==
  /\ UNCHANGED <<now, envVars, hrVars, devVars>>
  /\ notifications' = <<>>
  /\ IF ~IsManager(actor)
     THEN /\ last' = Response("addManual", employeeId, "Forbidden", NoRow)
          /\ UNCHANGED attVars
     ELSE LET attendanceId == Len(attendanceRecords) + 1 IN
          /\ Len(attendanceModifications) < MaxMods
          /\ Len(attendanceRecords) < MaxRecords
          /\ attendanceRecords' =
               Append(attendanceRecords,
                 NewRecord(employeeId, date, checkInTime, NULL, NoMethod,
                           checkOutTime, "present"))
          /\ IF secondWriteFails
             THEN /\ UNCHANGED attendanceModifications
                  /\ last' = Response("addManual", employeeId, "DbError",
                                      attendanceId)
             ELSE /\ attendanceModifications' =
                       createAttendanceModification(
                         AuditRow(attendanceId, actor.id, "add", NULL, NULL,
                                  checkInTime, checkOutTime))
                  /\ last' = Response("addManual", employeeId, "ok",
                                      attendanceId)

\* attendanceManagement.resetCheckout over resetAttendanceCheckOut
ResetCheckout(actor, attendanceId) ==
  /\ UNCHANGED <<now, envVars, hrVars, devVars>>
  /\ notifications' = <<>>
  /\ IF ~IsManager(actor)
     THEN /\ last' = Response("resetCheckout", NoRow, "Forbidden", attendanceId)
          /\ UNCHANGED attVars
     ELSE IF attendanceId \notin DOMAIN attendanceRecords
     THEN /\ last' = Response("resetCheckout", NoRow, "RecordNotFound",
                              attendanceId)
          /\ UNCHANGED attVars
     ELSE LET current == attendanceRecords[attendanceId] IN
          /\ Len(attendanceModifications) < MaxMods
          /\ attendanceModifications' =
               createAttendanceModification(
                 AuditRow(attendanceId, actor.id, "reset",
                          current.checkInTime, current.checkOutTime,
                          current.checkInTime, NULL))
          /\ IF secondWriteFails
             THEN /\ UNCHANGED attendanceRecords
                  /\ last' = Response("resetCheckout", current.employeeId,
                                      "DbError", attendanceId)
             ELSE /\ attendanceRecords' =
                       updateAttendanceRecord(attendanceId,
                         [checkOutTime |-> NULL])
                  /\ last' = Response("resetCheckout", current.employeeId,
                                      "ok", attendanceId)

\* ------------------------------------------------------------------ clock
\* time passes between two requests: the rest of the working day, or the
\* night
ClockJumps == {8 * 60, 17 * 60}

Later(minutes) ==
  /\ now + minutes < MaxDays * MinutesPerDay
  /\ now' = now + minutes
  /\ UNCHANGED <<attVars, devVars, envVars, notifications, last, hrVars>>

Tick ==
  /\ now < StartTime + MaxTicks
  /\ now' = now + 1
  /\ UNCHANGED <<attVars, devVars, envVars, notifications, last, hrVars>>

\* -------------------------------------------------------- workZone.check
\* the query returns the evaluator's verdict as it is
WorkZoneCheck(latitude, longitude) ==
  /\ last' = [op |-> "workZoneCheck", emp |-> NoRow, latitude |-> latitude,
              deviceId |-> NoDevice, res |-> "ok", recordId |-> NoRow,
              body |-> isLocationInWorkZone(latitude, longitude)]
  /\ notifications' = <<>>
  /\ UNCHANGED <<now, envVars, hrVars, devVars, attVars>>

\* ------------------------------------------------------------ leave engine
LeaveTypes == {"annual", "sick", "emergency", "unpaid"}

\* new Date().getFullYear()
getFullYear(t) == BaseYear + (t \div (DaysPerYear * MinutesPerDay))

\* the row getOrCreateLeaveBalance inserts
DefaultBalance(e, year) ==
  [employeeId |-> e, year |-> year,
   annualBalance |-> 21, sickBalance |-> 10, emergencyBalance |-> 5,
   usedAnnual |-> 0, usedSick |-> 0, usedEmergency |-> 0]

\* leave_balances.employeeId is declared unique: an insert for an employee
\* that has a row (of any year) violates the key
BalanceKeyFree(balances, e, year) ==
  \A i \in DOMAIN balances : balances[i].employeeId # e

\* getOrCreateLeaveBalance at instant t: whether it returns, the row it
\* returns and the table it leaves
getOrCreateLeaveBalance(balances, e, t) ==
  LET year == getFullYear(t)
      hits == {i \in DOMAIN balances :
                 balances[i].employeeId = e /\ balances[i].year = year}
  IN  IF hits # {}
      THEN [ok |-> TRUE, id |-> CHOOSE i \in hits : TRUE, table |-> balances]
      ELSE IF ~BalanceKeyFree(balances, e, year)
      THEN [ok |-> FALSE, id |-> NoRow, table |-> balances]
      ELSE [ok |-> TRUE, id |-> Len(balances) + 1,
            table |-> Append(balances, DefaultBalance(e, year))]

\* the total and used columns of a paid leave type
Total(row, leaveType) ==
  CASE leaveType = "annual" -> row.annualBalance
    [] leaveType = "sick" -> row.sickBalance
    [] leaveType = "emergency" -> row.emergencyBalance

Used(row, leaveType) ==
  CASE leaveType = "annual" -> row.usedAnnual
    [] leaveType = "sick" -> row.usedSick
    [] leaveType = "emergency" -> row.usedEmergency

\* getLeaveBalance(...)[type].remaining of a balance row
Remaining(row, leaveType) == Total(row, leaveType) - Used(row, leaveType)

\* updateLeaveBalance on the row getOrCreateLeaveBalance returned
AddUsed(row, leaveType, days) ==
  CASE leaveType = "annual" -> [row EXCEPT !.usedAnnual = @ + days]
    [] leaveType = "sick" -> [row EXCEPT !.usedSick = @ + days]
    [] leaveType = "emergency" -> [row EXCEPT !.usedEmergency = @ + days]

\* Math.ceil(|end - start| / one day) + 1, dates counted in days
TotalDays(startDate, endDate) == Abs(endDate - startDate) + 1

\* balance[balanceKey].remaining < totalDays
InsufficientBalance(row, leaveType, totalDays) ==
  Remaining(row, leaveType) < totalDays

NewLeaveRequest(e, leaveType, startDate, endDate, reason) ==
  [employeeId |-> e, leaveType |-> leaveType,
   startDate |-> startDate, endDate |-> endDate,
   totalDays |-> TotalDays(startDate, endDate), reason |-> reason,
   status |-> "pending", reviewedBy |-> NULL, reviewedAt |-> NULL,
   rejectionReason |-> NoText]

\* leave.create
LeaveCreate(code, leaveType, startDate, endDate, reason) ==
  LET input == [leaveType |-> leaveType,
                totalDays |-> TotalDays(startDate, endDate)] IN
  /\ UNCHANGED <<now, attVars, devVars, envVars, fieldTasks, faultVars,
                 trackVars>>
  /\ IF code \notin Employees
     THEN /\ last' = Request("leaveCreate", code, "NotFound", NoRow, input)
          /\ notifications' = <<>>
          /\ UNCHANGED leaveVars
     ELSE LET totalDays == TotalDays(startDate, endDate)
              balance == getOrCreateLeaveBalance(leaveBalances, code, now)
              paid == leaveType # "unpaid"
          IN  IF paid /\ ~balance.ok
              THEN /\ last' = Request("leaveCreate", code, "DbError", NoRow, input)
                   /\ notifications' = <<>>
                   /\ UNCHANGED leaveVars
              ELSE IF paid /\ InsufficientBalance(balance.table[balance.id],
                                                  leaveType, totalDays)
              THEN /\ last' = Request("leaveCreate", code,
                                       "InsufficientBalance", NoRow, input)
                   /\ notifications' = <<>>
                   /\ leaveBalances' = balance.table
                   /\ UNCHANGED leaveRequests
              ELSE /\ Len(leaveRequests) < MaxRequests
                   /\ leaveBalances' =
                        IF paid THEN balance.table ELSE leaveBalances
                   /\ leaveRequests' =
                        Append(leaveRequests,
                          NewLeaveRequest(code, leaveType, startDate, endDate,
                                          reason))
                   /\ notifications' =
                        Emitted((IF employees[code].branchId # NULL
                                 THEN <<BranchNote("general", code)>>
                                 ELSE <<>>)
                                \o <<AdminNote("system", code)>>)
                   /\ last' = Request("leaveCreate", code, "ok",
                                       Len(leaveRequests) + 1, input)

\* reviewer.role is branch_manager or admin
IsReviewer(code) ==
  code \in Employees /\ employees[code].role \in {"branch_manager", "admin"}

\* request.status !== "pending"
AlreadyDecided_Never(request) == FALSE

AlreadyDecided(request) == request.status # "pending"

\* the update of updateLeaveRequestStatus
Decided_DropsReason(request, status, reviewedBy, rejectionReason) ==
  [request EXCEPT !.status = status, !.reviewedBy = reviewedBy,
                  !.reviewedAt = now]

Decided(request, status, reviewedBy, rejectionReason) ==
  [request EXCEPT !.status = status, !.reviewedBy = reviewedBy,
                  !.reviewedAt = now,
                  !.rejectionReason =
                     IF status = "rejected" /\ rejectionReason # ""
                     THEN rejectionReason ELSE @]

\* the part leave.approve and leave.reject share after the status guards:
\* updateLeaveRequestStatus, then the awaited notification to the branch
Decide(op, requestId, status, reviewedBy, rejectionReason) ==
  LET input == [reason |-> rejectionReason]
      request == leaveRequests[requestId]
      e == request.employeeId
      counted == status = "approved" /\ request.leaveType # "unpaid"
      balance == getOrCreateLeaveBalance(leaveBalances, e, now)
  IN  /\ leaveRequests' =
           [leaveRequests EXCEPT ![requestId] =
              Decided(request, status, reviewedBy, rejectionReason)]
      /\ IF counted /\ ~balance.ok
         THEN /\ UNCHANGED leaveBalances
              /\ notifications' = <<>>
              /\ last' = Request(op, e, "DbError", requestId, input)
         ELSE /\ leaveBalances' =
                   IF counted
                   THEN [balance.table EXCEPT ![balance.id] =
                           AddUsed(@, request.leaveType, request.totalDays)]
                   ELSE leaveBalances
              /\ IF employees[e].branchId # NULL
                 THEN /\ notifications' = Emitted(<<BranchNote("general", e)>>)
                      /\ last' = Request(op, e, Awaited("ok"), requestId, input)
                 ELSE /\ notifications' = <<>>
                      /\ last' = Request(op, e, "ok", requestId, input)

\* the guards leave.approve and leave.reject share, then Decide
Review(op, requestId, reviewerCode, status, rejectionReason) ==
  LET input == [reason |-> rejectionReason] IN
  /\ UNCHANGED <<now, attVars, devVars, envVars, fieldTasks, faultVars,
                 trackVars>>
  /\ IF ~IsReviewer(reviewerCode)
     THEN /\ last' = Request(op, NoRow, "Forbidden", requestId, input)
          /\ notifications' = <<>>
          /\ UNCHANGED leaveVars
     ELSE IF requestId \notin DOMAIN leaveRequests
     THEN /\ last' = Request(op, NoRow, "NotFound", requestId, input)
          /\ notifications' = <<>>
          /\ UNCHANGED leaveVars
     ELSE IF AlreadyDecided(leaveRequests[requestId])
     THEN /\ last' = Request(op, leaveRequests[requestId].employeeId,
                              "AlreadyDecided", requestId, input)
          /\ notifications' = <<>>
          /\ UNCHANGED leaveVars
     ELSE Decide(op, requestId, status, reviewerCode, rejectionReason)

\* leave.approve
LeaveApprove(requestId, reviewerCode) ==
  Review("leaveApprove", requestId, reviewerCode, "approved", "")

\* db.update(leaveBalances).set(updateData): the used column of the type
SetUsed(row, leaveType, value) ==
  CASE leaveType = "annual" -> [row EXCEPT !.usedAnnual = value]
    [] leaveType = "sick" -> [row EXCEPT !.usedSick = value]
    [] leaveType = "emergency" -> [row EXCEPT !.usedEmergency = value]

\* an approval inside updateLeaveBalance: it has read the balance row and has
\* not written the new used value yet
Counting(requestId, e, leaveType, days, balanceId, used) ==
  [state |-> "reading", op |-> "leaveApprove", emp |-> e,
   requestId |-> requestId, leaveType |-> leaveType, days |-> days,
   balanceId |-> balanceId, used |-> used]

\* leave.approve of client p up to the await that follows the balance read of
\* updateLeaveBalance: the guards, the status update and
\* getOrCreateLeaveBalance. A request that is refused, or of unpaid leave,
\* never reads a balance: the whole handler runs.
LeaveApproveBegin(p, requestId, reviewerCode) ==
  /\ calls[p].state # "reading"
  /\ IF \/ ~IsReviewer(reviewerCode)
        \/ requestId \notin DOMAIN leaveRequests
        \/ AlreadyDecided(leaveRequests[requestId])
        \/ leaveRequests[requestId].leaveType = "unpaid"
     THEN LeaveApprove(requestId, reviewerCode)
     ELSE LET request == leaveRequests[requestId]
              e == request.employeeId
              balance == getOrCreateLeaveBalance(leaveBalances, e, now)
          IN  /\ UNCHANGED <<now, attVars, devVars, envVars, fieldTasks,
                             faultVars, locationTracking>>
              /\ leaveRequests' =
                   [leaveRequests EXCEPT ![requestId] =
                      Decided(request, "approved", reviewerCode, "")]
              /\ IF ~balance.ok
                 THEN /\ UNCHANGED leaveBalances
                      /\ notifications' = <<>>
                      /\ last' = Request("leaveApprove", e, "DbError",
                                         requestId, [reason |-> ""])
                      /\ calls' = [calls EXCEPT ![p] =
                                     Done("leaveApprove", e, NoRow, "DbError")]
                 ELSE /\ leaveBalances' = balance.table
                      /\ calls' = [calls EXCEPT ![p] =
                                     Counting(requestId, e, request.leaveType,
                                              request.totalDays, balance.id,
                                              Used(balance.table[balance.id],
                                                   request.leaveType))]
                      /\ UNCHANGED <<last, notifications>>

\* the rest of that approval: the update of the used column with the value
\* computed from the row it read, then the awaited branch notification
LeaveApproveEnd(p) ==
  LET c == calls[p] IN
  /\ c.state = "reading"
  /\ c.op = "leaveApprove"
  /\ UNCHANGED <<now, attVars, devVars, envVars, fieldTasks, faultVars,
                 locationTracking, leaveRequests>>
  /\ leaveBalances' =
       [leaveBalances EXCEPT ![c.balanceId] =
          SetUsed(@, c.leaveType, c.used + c.days)]
  /\ IF employees[c.emp].branchId # NULL
     THEN /\ notifications' = Emitted(<<BranchNote("general", c.emp)>>)
          /\ last' = Request("leaveApprove", c.emp, Awaited("ok"),
                             c.requestId, [reason |-> ""])
     ELSE /\ notifications' = <<>>
          /\ last' = Request("leaveApprove", c.emp, "ok", c.requestId,
                             [reason |-> ""])
  /\ calls' = [calls EXCEPT ![p] =
                 Done("leaveApprove", c.emp, c.balanceId, last'.res)]

\* a decision that has read the request, found it pending, and has not
\* called updateLeaveRequestStatus yet
Deciding(op, requestId, e, status, reviewedBy, rejectionReason) ==
  [state |-> "deciding", op |-> op, emp |-> e, requestId |-> requestId,
   status |-> status, reviewedBy |-> reviewedBy,
   rejectionReason |-> rejectionReason]

\* leave.approve / leave.reject of client p up to the await that follows
\* their status guard: reviewer lookup, getLeaveRequestById and
\* request.status !== "pending". A refused request ends here.
DecideBegin(p, op, requestId, reviewerCode, status, rejectionReason) ==
  /\ calls[p].state \notin {"reading", "deciding"}
  /\ IF \/ ~IsReviewer(reviewerCode)
        \/ requestId \notin DOMAIN leaveRequests
        \/ AlreadyDecided(leaveRequests[requestId])
     THEN /\ Review(op, requestId, reviewerCode, status, rejectionReason)
     ELSE /\ calls' = [calls EXCEPT ![p] =
                         Deciding(op, requestId,
                                  leaveRequests[requestId].employeeId,
                                  status, reviewerCode, rejectionReason)]
          /\ UNCHANGED <<now, attVars, devVars, envVars, fieldTasks,
                         faultVars, locationTracking, leaveVars, last,
                         notifications>>

\* the rest of that decision: updateLeaveRequestStatus (the update is keyed
\* on the id alone) and the awaited notification
DecideEnd(p) ==
  LET c == calls[p] IN
  /\ c.state = "deciding"
  /\ UNCHANGED <<now, attVars, devVars, envVars, fieldTasks, faultVars,
                 locationTracking>>
  /\ Decide(c.op, c.requestId, c.status, c.reviewedBy, c.rejectionReason)
  /\ calls' = [calls EXCEPT ![p] = Done(c.op, c.emp, c.requestId, last'.res)]

\* leave.reject; the input schema refuses an empty reason
LeaveReject(requestId, reviewerCode, reason) ==
  LET input == [reason |-> reason] IN
  IF reason = ""
  THEN /\ last' = Request("leaveReject", NoRow, "ValidationFailed", requestId, input)
       /\ notifications' = <<>>
       /\ UNCHANGED <<now, attVars, devVars, envVars, hrVars>>
  ELSE Review("leaveReject", requestId, reviewerCode, "rejected", reason)

\* leave.balance: getLeaveBalance of the employee, creating the row if needed
LeaveBalance(code) ==
  /\ UNCHANGED <<now, attVars, devVars, envVars, fieldTasks, faultVars,
                 leaveRequests, trackVars>>
  /\ notifications' = <<>>
  /\ IF code \notin Employees
     THEN /\ last' = Response("leaveBalance", code, "NotFound", NoRow)
          /\ UNCHANGED leaveBalances
     ELSE LET balance == getOrCreateLeaveBalance(leaveBalances, code, now) IN
          IF ~balance.ok
          THEN /\ last' = Response("leaveBalance", code, "DbError", NoRow)
               /\ UNCHANGED leaveBalances
          ELSE /\ leaveBalances' = balance.table
               /\ last' =
                    [op |-> "leaveBalance", emp |-> code, latitude |-> NULL,
                     deviceId |-> NoDevice, res |-> "ok",
                     recordId |-> balance.id,
                     body |-> [t \in LeaveTypes \ {"unpaid"} |->
                                 [total |-> Total(balance.table[balance.id], t),
                                  used |-> Used(balance.table[balance.id], t),
                                  remaining |->
                                    Remaining(balance.table[balance.id], t)]]]

\* the calendar year changes between two requests
NewYear ==
  /\ getFullYear(now) < BaseYear + MaxYears
  /\ now' = now + DaysPerYear * MinutesPerDay
  /\ UNCHANGED <<attVars, devVars, envVars, notifications, last, hrVars>>

\* ------------------------------------------------------------ field tasks
\* the row createFieldTask inserts
NewFieldTask(e, date, startTime) ==
  [employeeId |-> e, date |-> date, status |-> "active",
   startTime |-> startTime]

\* rows getActiveFieldTask may return: the employee's active task with the
\* latest startTime (any of them on a tie), NoRow when none is active
getActiveFieldTask(e) ==
  LET active == {i \in DOMAIN fieldTasks :
                   /\ fieldTasks[i].employeeId = e
                   /\ fieldTasks[i].status = "active"}
  IN  IF active = {} THEN {NoRow}
      ELSE {i \in active :
              \A j \in active :
                fieldTasks[j].startTime <= fieldTasks[i].startTime}

completeFieldTask_EveryActiveTask(taskId) ==
  [i \in DOMAIN fieldTasks |->
     IF fieldTasks[i].employeeId = fieldTasks[taskId].employeeId
     THEN [fieldTasks[i] EXCEPT !.status = "completed"]
     ELSE fieldTasks[i]]

completeFieldTask(taskId) ==
  [fieldTasks EXCEPT ![taskId].status = "completed"]

\* the part fieldTask.create and fieldTask.createByCode share: end the active
\* task when isReturn, start a new one otherwise and notify
FieldTaskTail(op, e, isReturn) ==
  LET input == [isReturn |-> isReturn] IN
  IF isReturn
  THEN \E activeTask \in getActiveFieldTask(e) :
         /\ fieldTasks' =
              IF activeTask # NoRow THEN completeFieldTask(activeTask)
              ELSE fieldTasks
         /\ notifications' = <<>>
         /\ last' = Request(op, e, "ok", activeTask, input)
  ELSE /\ Len(fieldTasks) < MaxTasks
       /\ fieldTasks' = Append(fieldTasks, NewFieldTask(e, IsoDate(now), now))
       /\ IF e \in Employees
          THEN /\ notifications' =
                    Emitted(<<AdminNote("system", e)>>
                            \o (IF employees[e].branchId # NULL
                                THEN <<BranchNote("general", e)>> ELSE <<>>))
               /\ last' = Request(op, e, Awaited("ok"), Len(fieldTasks) + 1,
                                  input)
          ELSE /\ notifications' = <<>>
               /\ last' = Request(op, e, "ok", Len(fieldTasks) + 1, input)

\* fieldTask.create: the employee id is taken from the input as it is
FieldTaskCreate(employeeId, isReturn) ==
  /\ UNCHANGED <<now, attVars, devVars, envVars, leaveVars, faultVars,
                 trackVars>>
  /\ FieldTaskTail("fieldTaskCreate", employeeId, isReturn)

\* fieldTask.createByCode
FieldTaskCreateByCode(code, isReturn) ==
  /\ UNCHANGED <<now, attVars, devVars, envVars, leaveVars, faultVars,
                 trackVars>>
  /\ IF code \notin Employees
     THEN /\ last' = Request("fieldTaskCreateByCode", code, "NotFound", NoRow,
                             [isReturn |-> isReturn])
          /\ notifications' = <<>>
          /\ UNCHANGED fieldTasks
     ELSE FieldTaskTail("fieldTaskCreateByCode", code, isReturn)

\* ---------------------------------------------------- attendance statistics
\* select ... where status = 'active' and role not in (admin, branch_manager)
getActiveEmployees ==
  {e \in Employees :
     /\ employees[e].status = "active"
     /\ employees[e].role \notin {"admin", "branch_manager"}}

\* select ... where date = date
getAllAttendanceByDate(date) ==
  {i \in DOMAIN attendanceRecords : attendanceRecords[i].date = date}

getAttendanceStats(date) ==
  LET records == getAllAttendanceByDate(date)
      allEmployees == getActiveEmployees
      checkedIn == Cardinality(records)
  IN  [present |->
         Cardinality({i \in records : attendanceRecords[i].status = "present"}),
       late |->
         Cardinality({i \in records : attendanceRecords[i].status = "late"}),
       absent |-> Cardinality(allEmployees) - checkedIn,
       total |-> Cardinality(allEmployees)]

\* attendance.stats: admin only
AttendanceStats(actor, date) ==
  /\ UNCHANGED <<now, attVars, devVars, envVars, hrVars>>
  /\ notifications' = <<>>
  /\ IF actor.role # "admin"
     THEN last' = Request("attendanceStats", NoRow, "Unauthorized", NoRow,
                          [date |-> date])
     ELSE last' = [op |-> "attendanceStats", emp |-> NoRow, latitude |-> NULL,
                   deviceId |-> NoDevice, res |-> "ok", recordId |-> NoRow,
                   input |-> [date |-> date],
                   body |-> getAttendanceStats(date)]

\* ------------------------------------------------------ location tracking
\* db.saveLocation: one row per update
saveLocation(e, latitude, longitude) ==
  Append(locationTracking,
         [employeeId |-> e, latitude |-> latitude, longitude |-> longitude,
          timestamp |-> now])

\* workZones.some(zone => distance <= zone.radiusMeters) over the active zones
isInsideAnyZone_NearestEdge(latitude, longitude) ==
  \E k \in DOMAIN getActiveWorkZones :
    calculateDistance(latitude, longitude, getActiveWorkZones[k].latitude,
                      getActiveWorkZones[k].longitude)
      < getActiveWorkZones[k].radiusMeters

isInsideAnyZone(latitude, longitude) ==
  \E k \in DOMAIN getActiveWorkZones :
    calculateDistance(latitude, longitude, getActiveWorkZones[k].latitude,
                      getActiveWorkZones[k].longitude)
      <= getActiveWorkZones[k].radiusMeters

\* the part location.update and location.updateByCode share: save the point,
\* then notify when the employee is checked in and outside every active zone
LocationTail(op, e, latitude, longitude) ==
  /\ Len(locationTracking) < MaxLocations
  /\ locationTracking' = saveLocation(e, latitude, longitude)
  /\ \E todayAttendance \in getTodayAttendance(e) :
       IF /\ todayAttendance # NoRow
          /\ attendanceRecords[todayAttendance].checkInTime # NULL
          /\ attendanceRecords[todayAttendance].checkOutTime = NULL
          /\ Len(getActiveWorkZones) > 0
          /\ ~isInsideAnyZone(latitude, longitude)
       THEN /\ notifications' =
                 Emitted(<<AdminNote("left_zone", e)>>
                         \o (IF employees[e].branchId # NULL
                             THEN <<BranchNote("employee_outside_zone", e)>>
                             ELSE <<>>))
            /\ last' = Reply(op, e, latitude, NoDevice, Awaited("ok"), NoRow)
       ELSE /\ notifications' = <<>>
            /\ last' = Reply(op, e, latitude, NoDevice, "ok", NoRow)

\* location.update (user is the employee linked to ctx.user) and
\* location.updateByCode
LocationUpdateBy(op, ref, latitude, longitude) ==
  /\ UNCHANGED <<now, attVars, devVars, envVars, leaveVars, fieldTasks,
                 faultVars, calls>>
  /\ IF ref \notin Employees
     THEN /\ last' = Reply(op, ref, latitude, NoDevice, "NotFound", NoRow)
          /\ notifications' = <<>>
          /\ UNCHANGED locationTracking
     ELSE LocationTail(op, ref, latitude, longitude)

LocationUpdate(user, latitude, longitude) ==
  LocationUpdateBy("locationUpdate", user, latitude, longitude)

LocationUpdateByCode(code, latitude, longitude) ==
  LocationUpdateBy("locationUpdateByCode", code, latitude, longitude)

\* ------------------------------------------------------- notification sink
\* inserts into the notification tables start to fail (createNotification and
\* createBranchNotification throw) and work again
SinkFails ==
  /\ sinkUp
  /\ sinkUp' = FALSE
  /\ UNCHANGED <<now, attVars, devVars, envVars, notifications, last,
                 leaveVars, fieldTasks, secondWriteFails, trackVars>>

SinkRecovers ==
  /\ ~sinkUp
  /\ sinkUp' = TRUE
  /\ UNCHANGED <<now, attVars, devVars, envVars, notifications, last,
                 leaveVars, fieldTasks, secondWriteFails, trackVars>>

\* --------------------------------------------------------- database faults
\* the connection starts to be lost between the two writes of a correction
\* (neither modifyAttendanceRecord, addManualAttendance nor
\* resetAttendanceCheckOut runs in a transaction), and holds again
ConnectionLost ==
  /\ ~secondWriteFails
  /\ secondWriteFails' = TRUE
  /\ UNCHANGED <<now, attVars, devVars, envVars, notifications, last,
                 leaveVars, fieldTasks, sinkUp, trackVars>>

ConnectionHolds ==
  /\ secondWriteFails
  /\ secondWriteFails' = FALSE
  /\ UNCHANGED <<now, attVars, devVars, envVars, notifications, last,
                 leaveVars, fieldTasks, sinkUp, trackVars>>

\* ---------------------------------------------------------- specifications
OptionalDevice == DeviceIds \cup {NoDevice}
OptionalTime == AdminTimes \cup {NULL}

InitWith(zones, settings) ==
  /\ now = StartTime
  /\ attendanceRecords = <<>>
  /\ attendanceModifications = <<>>
  /\ registeredDeviceId = [e \in Employees |-> NoDevice]
  /\ deviceRegisteredAt = [e \in Employees |-> NULL]
  /\ workZones = zones
  /\ workSettings = settings
  /\ notifications = <<>>
  /\ last = Response("init", NoRow, "ok", NoRow)
  /\ leaveRequests = <<>>
  /\ leaveBalances = <<>>
  /\ fieldTasks = <<>>
  /\ sinkUp = TRUE
  /\ secondWriteFails = FALSE
  /\ locationTracking = <<>>
  /\ calls = [p \in Clients |-> Idle]

\* the check-in / check-out handlers by employee code over the given inputs
ByCodeOps(refs, lats, methods, devices) ==
  \/ \E e \in refs, lat \in lats, m \in methods, d \in devices :
        CheckInByCode(e, lat, 0, m, d)
  \/ \E e \in refs, lat \in lats, m \in methods, d \in devices :
        CheckOutByCode(e, lat, 0, m, d)

\* the check-in / check-out handlers of a signed-in user
SessionOps(refs, lats, methods) ==
  \/ \E e \in refs, lat \in lats, m \in methods : CheckIn(e, lat, 0, m)
  \/ \E e \in refs, lat \in lats, m \in methods : CheckOut(e, lat, 0, m)

\* ids an administrator may name: every row and one id that has no row
RecordIds == 1..(Len(attendanceRecords) + 1)

\* the three administrative corrections
CorrectionOps(actors) ==
  \/ \E a \in actors, id \in RecordIds, cin \in OptionalTime,
        cout \in OptionalTime : Modify(a, id, cin, cout)
  \/ \E a \in actors, e \in Employees, date \in Dates, cin \in OptionalTime,
        cout \in OptionalTime : AddManual(a, e, date, cin, cout)
  \/ \E a \in actors, id \in RecordIds : ResetCheckout(a, id)

HQ == Zone("HQ", 0, 100, TRUE)

\* Spec: the attendance lifecycle of one employee with administrative
\* corrections; one work zone, requests without deviceId
Init == InitWith(<<HQ>>, <<DefaultSettings>>)

Next ==
  \/ ByCodeOps({1}, {0}, {"fingerprint"}, {NoDevice})
  \/ SessionOps({1}, {0}, Methods)
  \/ CorrectionOps({Admin})
  \/ Tick

Spec == Init /\ [][Next]_vars

\* SpecNoAdmin: check-in and check-out only, by every employee reference
NextNoAdmin ==
  \/ ByCodeOps(EmployeeRefs, {0}, Methods, {NoDevice})
  \/ SessionOps(EmployeeRefs, {0}, Methods)
  \/ Tick

SpecNoAdmin == Init /\ [][NextNoAdmin]_vars

\* SpecDevice: device binding through the handlers by employee code
NextDevice ==
  \/ ByCodeOps(Employees, {0}, {"face"}, OptionalDevice)
  \/ \E e \in EmployeeRefs : ResetDevice(e)
  \/ Tick

SpecDevice == Init /\ [][NextDevice]_vars

\* SpecGeo: the geofence, over several zone tables and points
GeoLatitudes == {0, 100, 101, 200}

ZoneTables ==
  LET zs == {Zone(n, c, 100, a) : n \in {"HQ"}, c \in {0, 200}, a \in BOOLEAN}
  IN  {<<>>} \cup {<<z>> : z \in zs} \cup {<<y, z>> : y \in zs, z \in zs}

InitGeo == \E zones \in ZoneTables : InitWith(zones, <<DefaultSettings>>)

NextGeo ==
  \/ \E lat \in GeoLatitudes : CheckInByCode(1, lat, 0, "face", NoDevice)
  \/ \E lat \in GeoLatitudes : CheckIn(1, lat, 0, "fingerprint")
  \/ \E lat \in GeoLatitudes : WorkZoneCheck(lat, 0)
  \/ Tick

SpecGeo == InitGeo /\ [][NextGeo]_vars

\* SpecZones: the zone evaluator alone over tables of up to two named zones
\* that may overlap, be disjoint, or be inactive
ZoneLatitudes == {0, 100, 101, 250, 400}

NamedZoneTables ==
  LET zs == {Zone(n, c, 100, a) :
               n \in {"HQ", "Depot"}, c \in {0, 150}, a \in BOOLEAN}
  IN  {<<>>} \cup {<<z>> : z \in zs} \cup {<<y, z>> : y \in zs, z \in zs}

InitZones == \E zones \in NamedZoneTables : InitWith(zones, <<DefaultSettings>>)

NextZones ==
  \/ \E lat \in ZoneLatitudes : WorkZoneCheck(lat, 0)
  \/ Tick

SpecZones == InitZones /\ [][NextZones]_vars

\* SpecLeave: the leave engine over two calendar years
LeaveEnds == {2, 20, 24}           \* endDate for startDate 0: 3, 21, 25 days
LeaveSample == {"annual", "emergency", "unpaid"}
Reasons == {"", "family"}
Requesters == {1, 9}               \* 9 resolves to no employee
RequestIds == 1..(Len(leaveRequests) + 1)

NextLeave ==
  \/ \E e \in Requesters, t \in LeaveSample, end \in LeaveEnds :
        LeaveCreate(e, t, 0, end, "travel")
  \/ \E id \in RequestIds, r \in Employees : LeaveApprove(id, r)
  \/ \E id \in RequestIds, r \in Employees, reason \in Reasons :
        LeaveReject(id, r, reason)
  \/ \E e \in Requesters : LeaveBalance(e)
  \/ NewYear

SpecLeave == Init /\ [][NextLeave]_vars

\* SpecDates: leave requests over start and end dates in either order
LeaveDates == {0, 2, 3}

NextDates ==
  \/ \E e \in Requesters, t \in LeaveSample, start \in LeaveDates,
        end \in LeaveDates : LeaveCreate(e, t, start, end, "travel")
  \/ \E e \in Requesters : LeaveBalance(e)

SpecDates == Init /\ [][NextDates]_vars

\* SpecSink: the handlers that notify, while the notification sink may fail
NextSink ==
  \/ ByCodeOps({1}, Latitudes, {"face"}, DeviceIds)
  \/ SessionOps({1}, {0}, {"fingerprint"})
  \/ LeaveCreate(1, "annual", 0, 2, "travel")
  \/ \E id \in RequestIds : LeaveApprove(id, 2)
  \/ \E id \in RequestIds : LeaveReject(id, 2, "family")
  \/ SinkFails
  \/ SinkRecovers
  \/ Tick

SpecSink == Init /\ [][NextSink]_vars

\* SpecField: field tasks started and ended through both handlers
NextField ==
  \/ \E e \in EmployeeRefs, isReturn \in BOOLEAN :
        FieldTaskCreateByCode(e, isReturn)
  \/ \E e \in EmployeeRefs, isReturn \in BOOLEAN : FieldTaskCreate(e, isReturn)
  \/ Tick

SpecField == Init /\ [][NextField]_vars

\* SpecAudit: the administrative corrections, each of which may lose the
\* connection between its two writes
NextAudit ==
  \/ ByCodeOps({1}, {0}, {"fingerprint"}, {NoDevice})
  \/ CorrectionOps({Admin})
  \/ ConnectionLost
  \/ ConnectionHolds

SpecAudit == Init /\ [][NextAudit]_vars

\* SpecCheckout: check-in and check-out under several work_settings tables: the
\* default day (end 17:00, a check-out at 08:15 is early), a shift that ends at
\* 06:00 (a check-out at 08:15 is not early, in UTC+3 and in UTC alike), no row
ShortShift ==
  [workStartTime |-> <<0, 0>>, workEndTime |-> <<6, 0>>,
   lateThresholdMinutes |-> 15]

SettingsTables == {<<DefaultSettings>>, <<ShortShift>>, <<>>}

InitCheckout == \E settings \in SettingsTables : InitWith(<<HQ>>, settings)

SpecCheckout == InitCheckout /\ [][NextNoAdmin]_vars

\* SpecStats: the statistics of a date while employees and managers check in
NextStats ==
  \/ ByCodeOps(Employees, {0}, {"face"}, {NoDevice})
  \/ \E a \in Actors, date \in Dates : AttendanceStats(a, date)
  \/ Tick

SpecStats == Init /\ [][NextStats]_vars

\* SpecMidnight: check-in and check-out by code around the change of the
\* calendar day, which UTC and the organization's UTC+3 place three hours apart
NextMidnight ==
  \/ ByCodeOps({1}, {0}, {"fingerprint"}, {NoDevice})
  \/ \E m \in ClockJumps : Later(m)

SpecMidnight == Init /\ [][NextMidnight]_vars

\* SpecToday: check-in and check-out by code and the lookup of today's record
NextToday ==
  \/ ByCodeOps(Employees, {0}, {"face"}, {NoDevice})
  \/ \E e \in EmployeeRefs : GetTodayAttendance(e)
  \/ Tick

SpecToday == Init /\ [][NextToday]_vars

\* SpecRace: check-in requests of two clients that may overlap, and check-out,
\* at one instant of the clock
NextRace ==
  \/ \E p \in Clients, e \in Requesters, d \in OptionalDevice :
        CheckInByCodeBegin(p, e, 0, 0, "face", d)
  \/ \E p \in Clients : CheckInByCodeEnd(p)
  \/ CheckOutByCode(1, 0, 0, "face", NoDevice)

SpecRace == Init /\ [][NextRace]_vars

\* SpecBind: check-ins by code whose device check and device registration
\* overlap, with check-out and the administrator's device reset
NextBind ==
  \/ \E p \in Clients, e \in Employees, d \in OptionalDevice :
        CheckDeviceBegin(p, e, 0, 0, "face", d)
  \/ \E p \in Clients : CheckDeviceEnd(p)
  \/ \E d \in OptionalDevice : CheckOutByCode(1, 0, 0, "face", d)
  \/ \E e \in Employees : ResetDevice(e)

SpecBind == Init /\ [][NextBind]_vars

\* SpecApprove: approvals of two clients that may overlap, in one year
ApproveEnds == {2, 4}              \* endDate for startDate 0: 3, 5 days
ApproveSample == {"annual", "unpaid"}

NextApprove ==
  \/ \E t \in ApproveSample, end \in ApproveEnds :
        LeaveCreate(1, t, 0, end, "travel")
  \/ \E p \in Clients, id \in RequestIds, r \in Employees :
        LeaveApproveBegin(p, id, r)
  \/ \E p \in Clients : LeaveApproveEnd(p)

SpecApprove == Init /\ [][NextApprove]_vars

\* SpecDecide: decisions of two clients on the requests of employee 1 that may
\* overlap, in one year
NextDecide ==
  \/ LeaveCreate(1, "annual", 0, 2, "travel")
  \/ \E p \in Clients, id \in RequestIds, r \in Employees :
        DecideBegin(p, "leaveApprove", id, r, "approved", "")
  \/ \E p \in Clients, id \in RequestIds, r \in Employees :
        DecideBegin(p, "leaveReject", id, r, "rejected", "family")
  \/ \E p \in Clients : DecideEnd(p)

SpecDecide == Init /\ [][NextDecide]_vars

\* SpecLocation: location updates between check-in and check-out, over the
\* zone tables of SpecGeo
NextLocation ==
  \/ \E e \in Requesters, lat \in GeoLatitudes :
        LocationUpdate(e, lat, 0)
  \/ \E e \in Requesters, lat \in GeoLatitudes :
        LocationUpdateByCode(e, lat, 0)
  \/ ByCodeOps({1}, {0, 200}, {"face"}, {NoDevice})

SpecLocation == InitGeo /\ [][NextLocation]_vars

\* ================================================================= claims
CheckInOps == {"checkIn", "checkInByCode"}
CheckOutOps == {"checkOut", "checkOutByCode"}
ByCodeNames == {"checkInByCode", "checkOutByCode"}

\* the step is a handler of ops answering employee e (Tick alone moves the
\* clock, and every handler writes its own name into last)
StepOf(ops, e) == now' = now /\ last'.op \in ops /\ last'.emp = e

\* rejections that come before the attendance guards of a handler
EarlierGuards == {"NotFound", "BiometricNotRegistered", "DeviceUnauthorized"}

TodayRows(e) ==
  {i \in DOMAIN attendanceRecords :
     attendanceRecords[i].employeeId = e
     /\ attendanceRecords[i].date = IsoDate(now)}

HasNote(notes, note) == \E k \in DOMAIN notes : notes[k] = note

\* C1: there is at most one attendance record for each (employeeId, date)
\* pair, also after addManual for a pair that already has a record.
C1_OneRecordPerEmployeeDate ==
  \A i, j \in DOMAIN attendanceRecords :
    (attendanceRecords[i].employeeId = attendanceRecords[j].employeeId
     /\ attendanceRecords[i].date = attendanceRecords[j].date) => i = j

\* C2: when today's record of the employee (every row the lookup may return)
\* has a checkInTime, a further check-in by either handler changes no
\* attendance record and creates none, and unless an earlier guard rejects the
\* request it fails with AlreadyCheckedIn.
C2_SecondCheckInRejected ==
  [][\A e \in Employees :
       (/\ StepOf(CheckInOps, e)
        /\ TodayRows(e) # {}
        /\ \A i \in TodayRows(e) : attendanceRecords[i].checkInTime # NULL)
       => /\ attendanceRecords' = attendanceRecords
          /\ last'.res # "ok"
          /\ last'.res \notin EarlierGuards => last'.res = "AlreadyCheckedIn"]_vars

C2_Witness ==
  /\ last.op \in CheckInOps
  /\ last.res = "AlreadyCheckedIn"
  /\ \E i \in TodayRows(last.emp) :
       /\ attendanceRecords[i].checkInTime # NULL
       /\ attendanceRecords[i].checkInTime < now

\* C3: both check-out handlers fail with NoCheckInToday when today's record is
\* missing or has no checkInTime, and with AlreadyCheckedOut when its
\* checkOutTime is set; the records are unchanged in every failing case.
C3_CheckOutGuards ==
  [][\A e \in Employees :
       (StepOf(CheckOutOps, e) /\ last'.res \notin EarlierGuards)
       => /\ (\A i \in TodayRows(e) : attendanceRecords[i].checkInTime = NULL)
               => last'.res = "NoCheckInToday"
          /\ (/\ TodayRows(e) # {}
              /\ \A i \in TodayRows(e) :
                   /\ attendanceRecords[i].checkInTime # NULL
                   /\ attendanceRecords[i].checkOutTime # NULL)
               => last'.res = "AlreadyCheckedOut"
          /\ last'.res # "ok" => attendanceRecords' = attendanceRecords]_vars

\* C4: under check-in and check-out calls alone a record moves only
\* NoRecord -> CheckedIn -> CheckedOut: rows are never removed, a new row has a
\* checkInTime and no checkOutTime, checkOutTime is never set while checkInTime
\* is null, a set checkInTime never changes, and a checked-out row never
\* changes again.
C4_Lifecycle ==
  [][/\ Len(attendanceRecords') >= Len(attendanceRecords)
     /\ \A i \in DOMAIN attendanceRecords' :
          /\ attendanceRecords'[i].checkOutTime # NULL
               => attendanceRecords'[i].checkInTime # NULL
          /\ i \notin DOMAIN attendanceRecords
               => /\ attendanceRecords'[i].checkInTime # NULL
                  /\ attendanceRecords'[i].checkOutTime = NULL
          /\ i \in DOMAIN attendanceRecords
               => /\ attendanceRecords[i].checkInTime # NULL
                    => attendanceRecords'[i].checkInTime
                         = attendanceRecords[i].checkInTime
                  /\ attendanceRecords[i].checkOutTime # NULL
                    => attendanceRecords'[i] = attendanceRecords[i]]_vars

C4_Witness ==
  /\ last.op \in CheckInOps \cup CheckOutOps
  /\ last.res \in {"AlreadyCheckedIn", "AlreadyCheckedOut"}
  /\ \E i \in TodayRows(last.emp) :
       /\ attendanceRecords[i].checkOutTime # NULL
       /\ attendanceRecords[i].checkOutTime < now

\* C5: every attendance record with both checkInTime and checkOutTime set has
\* checkOutTime >= checkInTime.
C5_CheckOutNotBeforeCheckIn ==
  \A i \in DOMAIN attendanceRecords :
    (attendanceRecords[i].checkInTime # NULL
     /\ attendanceRecords[i].checkOutTime # NULL)
    => attendanceRecords[i].checkOutTime >= attendanceRecords[i].checkInTime

\* C6: when the employee has a registered device and a check-in or check-out
\* by code presents a different deviceId, the request is rejected with
\* DeviceUnauthorized, no attendance record is created or changed, a
\* device_mismatch notification for the employee is created, and no device
\* binding changes.
C6_DeviceMismatchBlocks ==
  [][\A e \in Employees :
       (/\ StepOf(ByCodeNames, e)
        /\ last'.deviceId # NoDevice
        /\ registeredDeviceId[e] # NoDevice
        /\ registeredDeviceId[e] # last'.deviceId)
       => /\ last'.res = "DeviceUnauthorized"
          /\ attendanceRecords' = attendanceRecords
          /\ HasNote(notifications', AdminNote("device_mismatch", e))
          /\ registeredDeviceId' = registeredDeviceId
          /\ deviceRegisteredAt' = deviceRegisteredAt]_vars

C6_Witness ==
  /\ last.op = "checkOutByCode"
  /\ last.res = "DeviceUnauthorized"
  /\ registeredDeviceId[last.emp] = "D1"
  /\ last.deviceId = "D2"
  /\ notifications = <<AdminNote("device_mismatch", last.emp)>>
  /\ \E i \in TodayRows(last.emp) : attendanceRecords[i].checkOutTime = NULL

\* C7: for an employee with no registered device, a successful check-in and a
\* successful check-out by code that supplies a deviceId each bind it:
\* afterwards registeredDeviceId is the presented deviceId and
\* deviceRegisteredAt is set.
C7_FirstUseBinds ==
  [][\A e \in Employees :
       (/\ StepOf(ByCodeNames, e)
        /\ last'.deviceId # NoDevice
        /\ registeredDeviceId[e] = NoDevice
        /\ last'.res = "ok")
       => /\ registeredDeviceId'[e] = last'.deviceId
          /\ deviceRegisteredAt'[e] # NULL]_vars

OutsideEveryActiveZone(latitude) ==
  /\ \E k \in DOMAIN workZones : workZones[k].isActive
  /\ \A k \in DOMAIN workZones :
       workZones[k].isActive
       => Abs(workZones[k].latitude - latitude) > workZones[k].radiusMeters

\* C9: a check-in from a point outside every active zone (at least one zone
\* being active) never succeeds and changes no attendance record, and unless
\* an earlier guard rejects it, it fails with OutsideWorkZone and an
\* outside_zone notification; a check-in from inside some active zone, or with
\* no active zone, is never rejected with OutsideWorkZone.
C9_GeofenceBlocks ==
  [][\A e \in Employees :
       StepOf(CheckInOps, e)
       => IF OutsideEveryActiveZone(last'.latitude)
          THEN /\ last'.res # "ok"
               /\ attendanceRecords' = attendanceRecords
               /\ last'.res \notin EarlierGuards \cup {"AlreadyCheckedIn"}
                    => /\ last'.res = "OutsideWorkZone"
                       /\ notifications' = <<AdminNote("outside_zone", e)>>
          ELSE last'.res # "OutsideWorkZone"]_vars

C9_Witness ==
  /\ last.op \in CheckInOps
  /\ last.res = "OutsideWorkZone"
  /\ OutsideEveryActiveZone(last.latitude)
  /\ Len(getActiveWorkZones) = 2
  /\ notifications = <<AdminNote("outside_zone", last.emp)>>
  /\ attendanceRecords = <<>>

\* C10: the evaluator, as workZone.check returns it, reports inside for every
\* point when no zone is active.
C10_EmptyZoneSetIsInside ==
  (last.op = "workZoneCheck" /\ getActiveWorkZones = <<>>)
  => last.body.inZone

\* C11: with work settings present, a successful check-in stores status late
\* exactly when the minutes since midnight in UTC+3 exceed workStartTime +
\* lateThresholdMinutes and present otherwise (08:00 and 15: 08:15 present,
\* 08:16 late), and creates a late notification exactly when the status is late.
C11_LateIffPastThreshold ==
  [][\A e \in Employees :
       (StepOf(CheckInOps, e) /\ last'.res = "ok" /\ workSettings # <<>>)
       => LET past == ((now + 3 * 60) % (24 * 60))
                        > workSettings[1].workStartTime[1] * 60
                          + workSettings[1].workStartTime[2]
                          + workSettings[1].lateThresholdMinutes
              row == attendanceRecords'[last'.recordId]
          IN  /\ row.checkInTime = now
              /\ row.status = (IF past THEN "late" ELSE "present")
              /\ HasNote(notifications', AdminNote("late", e)) <=> past
              /\ (now = 5 * 60 + 15) => row.status = "present"
              /\ (now = 5 * 60 + 16) => row.status = "late"]_vars

C11_Witness ==
  /\ last.op \in CheckInOps
  /\ last.res = "ok"
  /\ now = StartTime + 1
  /\ attendanceRecords[last.recordId].checkInTime = now
  /\ attendanceRecords[last.recordId].status = "late"
  /\ notifications = <<AdminNote("late", last.emp)>>

\* ----------------------------------------------------------- leave claims
PaidTypes == {"annual", "sick", "emergency"}
DecideOps == {"leaveApprove", "leaveReject"}

\* the step is a handler of ops (answering any caller)
StepIn(ops) == now' = now /\ last'.op \in ops

UsedOf(row, t) ==
  IF t = "annual" THEN row.usedAnnual
  ELSE IF t = "sick" THEN row.usedSick ELSE row.usedEmergency

TotalOf(row, t) ==
  IF t = "annual" THEN row.annualBalance
  ELSE IF t = "sick" THEN row.sickBalance ELSE row.emergencyBalance

FreshTotal(t) == IF t = "annual" THEN 21 ELSE IF t = "sick" THEN 10 ELSE 5

\* rows of the employee's balance for the calendar year of the clock
YearRows(e) ==
  {i \in DOMAIN leaveBalances :
     leaveBalances[i].employeeId = e
     /\ leaveBalances[i].year = 2026 + (now \div (365 * 24 * 60))}

\* C12: in every balance row each used counter is at most its balance, also
\* after several pending requests of one type, each created while the balance
\* sufficed, were all approved.
C12_UsedWithinBalance ==
  \A i \in DOMAIN leaveBalances : \A t \in PaidTypes :
    UsedOf(leaveBalances[i], t) <= TotalOf(leaveBalances[i], t)

\* C13: a leave request of a paid type fails with InsufficientBalance and
\* creates no request when the remaining days of that type (of a fresh balance
\* when the year has no row yet) are fewer than totalDays; otherwise, and
\* always for unpaid, it succeeds and appends exactly one pending request.
C13_RequestChecksBalance ==
  [][\A e \in Employees :
       StepOf({"leaveCreate"}, e)
       => LET t == last'.input.leaveType
              days == last'.input.totalDays
              remaining ==
                IF YearRows(e) = {} THEN FreshTotal(t)
                ELSE LET row == leaveBalances[CHOOSE i \in YearRows(e) : TRUE]
                     IN  TotalOf(row, t) - UsedOf(row, t)
          IN  IF t # "unpaid" /\ remaining < days
              THEN /\ last'.res = "InsufficientBalance"
                   /\ leaveRequests' = leaveRequests
              ELSE /\ last'.res = "ok"
                   /\ Len(leaveRequests') = Len(leaveRequests) + 1
                   /\ SubSeq(leaveRequests', 1, Len(leaveRequests))
                        = leaveRequests
                   /\ leaveRequests'[Len(leaveRequests')].status = "pending"
                   /\ leaveRequests'[Len(leaveRequests')].employeeId = e
                   /\ leaveRequests'[Len(leaveRequests')].totalDays = days]_vars

\* C14: creating a leave request and rejecting one leave the counters of every
\* balance row unchanged (a row created on the way has used = 0); a rejection
\* with an empty reason is refused and changes nothing, and a successful
\* rejection stores the given reason as rejectionReason.
C14_CreateAndRejectKeepUsed ==
  [][StepIn({"leaveCreate", "leaveReject"})
     => /\ \A i \in DOMAIN leaveBalances' :
             IF i \in DOMAIN leaveBalances
             THEN leaveBalances'[i] = leaveBalances[i]
             ELSE \A t \in PaidTypes : UsedOf(leaveBalances'[i], t) = 0
        /\ last'.op = "leaveReject"
             => /\ last'.input.reason = ""
                  => /\ last'.res = "ValidationFailed"
                     /\ leaveRequests' = leaveRequests
                /\ last'.res = "ok"
                  => /\ last'.input.reason # ""
                     /\ leaveRequests[last'.recordId].status = "pending"
                     /\ leaveRequests'[last'.recordId].status = "rejected"
                     /\ leaveRequests'[last'.recordId].rejectionReason
                          = last'.input.reason]_vars

C14_Witness ==
  /\ last.op = "leaveReject"
  /\ last.res = "ok"
  /\ leaveRequests[last.recordId].status = "rejected"
  /\ leaveRequests[last.recordId].rejectionReason = "family"
  /\ leaveRequests[last.recordId].leaveType = "annual"
  /\ \E i \in DOMAIN leaveBalances :
       /\ leaveBalances[i].employeeId = leaveRequests[last.recordId].employeeId
       /\ leaveBalances[i].usedAnnual = 0

\* total days of the leave requests with ids in ids
RECURSIVE SumDays(_)
SumDays(ids) ==
  IF ids = {} THEN 0
  ELSE LET i == CHOOSE k \in ids : TRUE
       IN  leaveRequests[i].totalDays + SumDays(ids \ {i})

\* used days of type t in the balance rows with ids in ids
RECURSIVE SumUsed(_, _)
SumUsed(ids, t) ==
  IF ids = {} THEN 0
  ELSE LET i == CHOOSE k \in ids : TRUE
       IN  UsedOf(leaveBalances[i], t) + SumUsed(ids \ {i}, t)

ApprovedDays(e, t) ==
  SumDays({i \in DOMAIN leaveRequests :
             /\ leaveRequests[i].employeeId = e
             /\ leaveRequests[i].leaveType = t
             /\ leaveRequests[i].status = "approved"})

CountedDays(e, t) ==
  SumUsed({i \in DOMAIN leaveBalances : leaveBalances[i].employeeId = e}, t)

\* C15: between requests, the days counted in an employee's balance for a paid
\* type are exactly the total days of the employee's approved requests of that
\* type, and every approved request has reviewedBy and reviewedAt set: no
\* request is approved without its days being counted.
C15_ApprovedIffCounted ==
  /\ \A e \in Employees : \A t \in PaidTypes :
       CountedDays(e, t) = ApprovedDays(e, t)
  /\ \A i \in DOMAIN leaveRequests :
       leaveRequests[i].status = "approved"
       => /\ leaveRequests[i].reviewedBy # NULL
          /\ leaveRequests[i].reviewedAt # NULL

\* C16: a leave request's status changes only from pending to approved or
\* rejected and a decided request never changes again; a decision on a request
\* that is not pending fails with AlreadyDecided and one on an unknown id with
\* NotFound (unless the reviewer or the input is refused first), changing
\* neither requests nor balances.
C16_DecisionIsFinal ==
  [][/\ Len(leaveRequests') >= Len(leaveRequests)
     /\ \A i \in DOMAIN leaveRequests :
          /\ leaveRequests[i].status # "pending"
               => leaveRequests'[i] = leaveRequests[i]
          /\ leaveRequests'[i].status # leaveRequests[i].status
               => leaveRequests'[i].status \in {"approved", "rejected"}
     /\ StepIn(DecideOps)
          => /\ last'.res \in {"NotFound", "AlreadyDecided"}
                  => /\ leaveRequests' = leaveRequests
                     /\ leaveBalances' = leaveBalances
             /\ last'.res \notin {"Forbidden", "ValidationFailed"}
                  => /\ last'.recordId \notin DOMAIN leaveRequests
                          <=> last'.res = "NotFound"
                     /\ (/\ last'.recordId \in DOMAIN leaveRequests
                         /\ leaveRequests[last'.recordId].status # "pending")
                          <=> last'.res = "AlreadyDecided"]_vars

C16_Witness ==
  /\ last.op = "leaveApprove"
  /\ last.res = "AlreadyDecided"
  /\ leaveRequests[last.recordId].status = "rejected"
  /\ leaveBalances # <<>>
  /\ \A i \in DOMAIN leaveBalances : leaveBalances[i].usedAnnual = 0

\* C17: reading the balance of an employee who has no row for the current
\* calendar year succeeds and creates one row with the defaults 21 / 10 / 5 and
\* used = 0 for that year, also when the employee has a row of an earlier
\* year; no (employeeId, year) pair ever has two rows.
C17_BalanceCreatedPerYear ==
  [][/\ \A i, j \in DOMAIN leaveBalances' :
          (/\ leaveBalances'[i].employeeId = leaveBalances'[j].employeeId
           /\ leaveBalances'[i].year = leaveBalances'[j].year) => i = j
     /\ \A e \in Employees :
          (StepOf({"leaveBalance"}, e) /\ YearRows(e) = {})
          => /\ last'.res = "ok"
             /\ leaveBalances' =
                  Append(leaveBalances,
                    [employeeId |-> e,
                     year |-> 2026 + (now \div (365 * 24 * 60)),
                     annualBalance |-> 21, sickBalance |-> 10,
                     emergencyBalance |-> 5,
                     usedAnnual |-> 0, usedSick |-> 0, usedEmergency |-> 0])
             /\ last'.body["annual"].remaining = 21]_vars

\* ---------------------------------------------------- notification claims
\* the request of the step presents a deviceId other than the registered one
PresentsOtherDevice(e) ==
  /\ last'.deviceId # NoDevice
  /\ registeredDeviceId[e] \notin {NoDevice, last'.deviceId}

\* C18: while the notification sink fails, a check-in that passes every guard
\* still succeeds and stores its checkInTime (also when it is late), a
\* check-out of an open record still succeeds and stores its checkOutTime (also
\* when it is early), and a decision on a pending leave request still succeeds
\* and is stored: the caller never receives the sink's error.
C18_SinkFailureDoesNotBlock ==
  [][~sinkUp
     => /\ \A e \in Employees :
             /\ (/\ StepOf(CheckInOps, e)
                 /\ TodayRows(e) = {}
                 /\ ~OutsideEveryActiveZone(last'.latitude)
                 /\ ~PresentsOtherDevice(e)
                 /\ last'.res \notin EarlierGuards)
                  => /\ last'.res = "ok"
                     /\ \E i \in DOMAIN attendanceRecords' :
                          /\ attendanceRecords'[i].employeeId = e
                          /\ attendanceRecords'[i].checkInTime = now
             /\ (/\ StepOf(CheckOutOps, e)
                 /\ TodayRows(e) # {}
                 /\ \A i \in TodayRows(e) :
                      /\ attendanceRecords[i].checkInTime # NULL
                      /\ attendanceRecords[i].checkOutTime = NULL
                 /\ ~PresentsOtherDevice(e)
                 /\ last'.res \notin EarlierGuards)
                  => /\ last'.res = "ok"
                     /\ \E i \in TodayRows(e) :
                          attendanceRecords'[i].checkOutTime = now
        /\ (/\ StepIn(DecideOps)
            /\ last'.recordId \in DOMAIN leaveRequests
            /\ leaveRequests[last'.recordId].status = "pending"
            /\ last'.res \notin {"Forbidden", "ValidationFailed"})
             => /\ last'.res = "ok"
                /\ leaveRequests'[last'.recordId].status
                     \in {"approved", "rejected"}]_vars

\* C19: while the notification sink fails, a check-in or check-out by code
\* from a device other than the registered one is still answered with
\* DeviceUnauthorized and a check-in from outside every active zone with
\* OutsideWorkZone (not with the sink's error), and neither changes attendance
\* records or device bindings.
C19_RejectionNotMasked ==
  [][~sinkUp
     => \A e \in Employees :
          /\ (StepOf(ByCodeNames, e) /\ PresentsOtherDevice(e))
               => /\ last'.res = "DeviceUnauthorized"
                  /\ UNCHANGED <<attVars, devVars>>
          /\ (/\ StepOf(CheckInOps, e)
              /\ OutsideEveryActiveZone(last'.latitude)
              /\ TodayRows(e) = {}
              /\ ~PresentsOtherDevice(e)
              /\ last'.res \notin EarlierGuards)
               => /\ last'.res = "OutsideWorkZone"
                  /\ UNCHANGED attVars]_vars

\* ------------------------------------------------------- field-task claims
FieldOps == {"fieldTaskCreate", "fieldTaskCreateByCode"}

ActiveTasks(tasks, e) ==
  {i \in DOMAIN tasks : tasks[i].employeeId = e /\ tasks[i].status = "active"}

\* C20: after every start or end call each employee has at most one active
\* field task, also when a task is started while one is active, and after a
\* successful end call the employee has no active task.
C20_OneActiveTaskPerEmployee ==
  [][\A e \in Employees :
       /\ Cardinality(ActiveTasks(fieldTasks', e)) <= 1
       /\ (StepOf(FieldOps, e) /\ last'.input.isReturn /\ last'.res = "ok")
            => ActiveTasks(fieldTasks', e) = {}]_vars

\* C21: ending a field task (isReturn) when the employee has no active task
\* answers success with id 0, changes no field task and emits no notification;
\* when an active task exists the answer carries the id of an active task of
\* the employee and exactly that task's status becomes completed.
C21_EndFieldTask ==
  [][\A e \in EmployeeRefs :
       (StepOf(FieldOps, e) /\ last'.input.isReturn /\ last'.res # "NotFound")
       => /\ last'.res = "ok"
          /\ notifications' = <<>>
          /\ IF ActiveTasks(fieldTasks, e) = {}
             THEN last'.recordId = 0 /\ fieldTasks' = fieldTasks
             ELSE /\ last'.recordId \in ActiveTasks(fieldTasks, e)
                  /\ fieldTasks' =
                       [i \in DOMAIN fieldTasks |->
                          IF i = last'.recordId
                          THEN [employeeId |-> fieldTasks[i].employeeId,
                                date |-> fieldTasks[i].date,
                                status |-> "completed",
                                startTime |-> fieldTasks[i].startTime]
                          ELSE fieldTasks[i]]]_vars

\* an end call completed one of two active tasks of the employee
C21_Witness ==
  /\ last.op \in FieldOps
  /\ last.input.isReturn
  /\ last.res = "ok"
  /\ last.recordId # 0
  /\ fieldTasks[last.recordId].status = "completed"
  /\ ActiveTasks(fieldTasks, last.emp) # {}

\* an end call with no active task: the no-op answer
C21_WitnessNoTask ==
  /\ last.op \in FieldOps
  /\ last.input.isReturn
  /\ last.res = "ok"
  /\ last.recordId = 0
  /\ fieldTasks # <<>>

\* ------------------------------------------------------- correction claims
CorrectionNames == {"modify", "addManual", "resetCheckout"}

\* the audit table holds a row for attendance record id of the given type
\* with the given previous and new times, written by the actor with a reason
Audited(mods, id, type, prevIn, prevOut, newIn, newOut) ==
  \E k \in DOMAIN mods :
    /\ mods[k].attendanceId = id
    /\ mods[k].modificationType = type
    /\ mods[k].previousCheckIn = prevIn
    /\ mods[k].previousCheckOut = prevOut
    /\ mods[k].newCheckIn = newIn
    /\ mods[k].newCheckOut = newOut
    /\ mods[k].modifiedBy = 100
    /\ mods[k].reason # ""

\* C22: whenever a step of modify, addManual or resetCheckout leaves an
\* attendance record created or changed, also when the connection is lost
\* between its two writes, the audit table holds after the step a row for that
\* record with its previous and its new check-in and check-out times, the
\* actor and a reason.
C22_AuditBeforeMutation ==
  [][StepIn(CorrectionNames)
     => \A i \in DOMAIN attendanceRecords' :
          IF i \notin DOMAIN attendanceRecords
          THEN Audited(attendanceModifications', i, "add", NULL, NULL,
                       attendanceRecords'[i].checkInTime,
                       attendanceRecords'[i].checkOutTime)
          ELSE attendanceRecords'[i] # attendanceRecords[i]
               => Audited(attendanceModifications', i,
                          IF last'.op = "modify" THEN "edit" ELSE "reset",
                          attendanceRecords[i].checkInTime,
                          attendanceRecords[i].checkOutTime,
                          attendanceRecords'[i].checkInTime,
                          attendanceRecords'[i].checkOutTime)]_vars

C24_ResetAllowsReCheckIn ==
  [][\A e \in Employees :
       (/\ StepOf(CheckInOps, e)
        /\ last.op = "resetCheckout" /\ last.res = "ok" /\ last.emp = e
        /\ attendanceRecords[last.recordId].date = now \div (24 * 60)
        /\ attendanceModifications[Len(attendanceModifications)]
             .previousCheckOut # NULL)
       => last'.res # "AlreadyCheckedIn"]_vars

\* -------------------------------------------------------- location claims
LocationOps == {"locationUpdate", "locationUpdateByCode"}

\* C25: a location update never creates or changes an attendance record (a
\* checked-in employee stays checked in), and it creates a left_zone
\* notification exactly when today's record of the employee has a checkInTime
\* and no checkOutTime, at least one zone is active and the point lies outside
\* every active zone.
C25_LocationUpdateIsAdvisory ==
  [][\A e \in Employees :
       StepOf(LocationOps, e)
       => /\ attendanceRecords' = attendanceRecords
          /\ attendanceModifications' = attendanceModifications
          /\ last'.res = "ok"
          /\ HasNote(notifications', AdminNote("left_zone", e))
               <=> /\ \E i \in TodayRows(e) :
                        /\ attendanceRecords[i].checkInTime # NULL
                        /\ attendanceRecords[i].checkOutTime = NULL
                   /\ OutsideEveryActiveZone(last'.latitude)]_vars

\* a checked-in employee reported a point outside both active zones
C25_Witness ==
  /\ last.op \in LocationOps
  /\ last.res = "ok"
  /\ HasNote(notifications, AdminNote("left_zone", last.emp))
  /\ \E i \in TodayRows(last.emp) :
       /\ attendanceRecords[i].checkInTime # NULL
       /\ attendanceRecords[i].checkOutTime = NULL
  /\ Len(getActiveWorkZones) = 2
  /\ locationTracking # <<>>

\* ------------------------------------------------------- check-out claims
\* C26: a successful check-out through either handler stores its checkOutTime,
\* and it creates an early_checkout notification exactly when work settings
\* exist and the check-out time is earlier than workEndTime minus two hours.
C26_EarlyCheckoutNotified ==
  [][\A e \in Employees :
       (StepOf(CheckOutOps, e) /\ last'.res = "ok")
       => LET early ==
                /\ workSettings # <<>>
                /\ (now + 3 * 60) % (24 * 60)
                     < workSettings[1].workEndTime[1] * 60
                       + workSettings[1].workEndTime[2] - 2 * 60
          IN  /\ attendanceRecords'[last'.recordId].checkOutTime = now
              /\ HasNote(notifications', AdminNote("early_checkout", e))
                   <=> early]_vars

\* ----------------------------------------------------- leave-date claims
\* C27: every stored leave request has totalDays = endDate - startDate + 1
\* (equal dates give 1), and no request whose endDate precedes its startDate is
\* stored with the positive totalDays of the absolute difference.
C27_TotalDaysInclusive ==
  \A i \in DOMAIN leaveRequests :
    LET r == leaveRequests[i] IN
    IF r.endDate >= r.startDate
    THEN r.totalDays = r.endDate - r.startDate + 1
    ELSE ~(r.totalDays > 0
           /\ r.totalDays = (r.startDate - r.endDate) + 1)

\* ------------------------------------------------------ statistics claims
\* C28: the statistics of any date have non-negative total, present, late and
\* absent, also when the date has records of employees that are not counted
\* as active non-manager employees or several records of one employee.
C28_StatsNonNegative ==
  (last.op = "attendanceStats" /\ last.res = "ok")
  => /\ last.body.total >= 0
     /\ last.body.present >= 0
     /\ last.body.late >= 0
     /\ last.body.absent >= 0

\* ------------------------------------------------------ concurrency claims
\* C29: when two check-in requests for one employee and date overlap (each
\* read today's record before either wrote: both found no row), then once
\* both have answered there is at most one attendance record for that
\* (employee, date) and at most one of them answered success.
C29_ConcurrentCheckInOnce ==
  \A p, q \in Clients :
    (/\ p # q
     /\ calls[p].state = "done" /\ calls[q].state = "done"
     /\ calls[p].op = "checkInByCode" /\ calls[q].op = "checkInByCode"
     /\ calls[p].emp = calls[q].emp
     /\ calls[p].emp \in Employees
     /\ calls[p].existing = NoRow /\ calls[q].existing = NoRow
     /\ calls[p].res \notin EarlierGuards /\ calls[q].res \notin EarlierGuards)
    => /\ Cardinality(TodayRows(calls[p].emp)) <= 1
       /\ ~(calls[p].res = "ok" /\ calls[q].res = "ok")

\* C30: no update of a used counter is lost when approvals of different
\* pending requests of one paid type and one employee overlap: whenever no
\* approval is in flight, the counter holds the sum of the totalDays of the
\* employee's approved requests of that type.
C30_NoLostUpdate ==
  (\A p \in Clients : calls[p].state # "reading")
  => \A e \in Employees : \A t \in PaidTypes :
       SumUsed({i \in DOMAIN leaveBalances :
                  leaveBalances[i].employeeId = e}, t)
         = SumDays({i \in DOMAIN leaveRequests :
                      /\ leaveRequests[i].employeeId = e
                      /\ leaveRequests[i].leaveType = t
                      /\ leaveRequests[i].status = "approved"})

\* C31: when two decisions on one pending request overlap (both found it
\* pending), then once both have answered at most one of them answered
\* success, the request's days are counted in the balance at most once, and
\* a request that ends rejected has no days counted.
C31_OneDecisionTakesEffect ==
  \A p, q \in Clients :
    (/\ p # q
     /\ calls[p].state = "done" /\ calls[q].state = "done"
     /\ calls[p].op \in DecideOps /\ calls[q].op \in DecideOps
     /\ calls[p].existing = calls[q].existing
     /\ calls[p].existing \in DOMAIN leaveRequests
     /\ Len(leaveRequests) = 1)
    => LET r == leaveRequests[calls[p].existing]
           counted == SumUsed({i \in DOMAIN leaveBalances :
                                 leaveBalances[i].employeeId = r.employeeId},
                              r.leaveType)
       IN  /\ ~(calls[p].res = "ok" /\ calls[q].res = "ok")
           /\ counted <= r.totalDays
           /\ r.status = "rejected" => counted = 0

\* ------------------------------------------------- device-binding claims
\* C32: a check-in by code of an employee with no registered device that is
\* rejected with AlreadyCheckedIn or OutsideWorkZone leaves the employee's
\* registeredDeviceId null: only a successful attempt binds.
C32_RejectedCheckInBindsNothing ==
  [][\A e \in Employees :
       (/\ StepOf({"checkInByCode"}, e)
        /\ registeredDeviceId[e] = NoDevice
        /\ last'.res \in {"AlreadyCheckedIn", "OutsideWorkZone"})
       => /\ registeredDeviceId'[e] = NoDevice
          /\ deviceRegisteredAt'[e] = NULL]_vars

\* ---------------------------------------------------- leave-balance claims
\* C33: within one year the used counters of a balance row never decrease:
\* no step that leaves the clock alone (leave.create, leave.approve,
\* leave.reject, leave.balance, and the halves of an approval) lowers
\* usedAnnual, usedSick or usedEmergency of an existing row.
C33_UsedNeverDecreases ==
  [][now' = now =>
       \A i \in DOMAIN leaveBalances :
          /\ i \in DOMAIN leaveBalances'
          /\ leaveBalances'[i].year = leaveBalances[i].year
          /\ \A t \in PaidTypes :
                Used(leaveBalances'[i], t) >= Used(leaveBalances[i], t)]_vars

\* ------------------------------------------------------- audit-log claims
AuditTypeOf(op) ==
  CASE op = "modify" -> "edit"
    [] op = "addManual" -> "add"
    [] op = "resetCheckout" -> "reset"

Reordered(zones, f) == [i \in DOMAIN zones |-> zones[f[i]]]

\* the indices of the active zones of a table that contain the point
Containing(zones, latitude, longitude) ==
  {i \in DOMAIN zones :
     /\ zones[i].isActive
     /\ calculateDistance(latitude, longitude,
                          zones[i].latitude, zones[i].longitude)
          <= zones[i].radiusMeters}

\* what the claim expects of the evaluator on a table
ExpectedVerdict(zones, verdict, latitude, longitude) ==
  LET hits == Containing(zones, latitude, longitude) IN
  /\ verdict.inZone <=> hits # {}
  /\ hits # {}
       => verdict.zoneName
            = zones[CHOOSE i \in hits : \A j \in hits : i <= j].name

\* C35: with at least one active zone, workZone.check reports inside exactly
\* when some active zone has distance(point, centre) <= radiusMeters; the
\* verdict is the same for every order of the zone table; and the zoneName
\* reported is that of the first containing zone in the order evaluated.
C35_VerdictIndependentOfOrder ==
  [][StepIn({"workZoneCheck"})
     => LET lat == last'.latitude
            verdict == last'.body
        IN  (\E i \in DOMAIN workZones : workZones[i].isActive)
            => /\ ExpectedVerdict(workZones, verdict, lat, 0)
               /\ \A f \in Permutations(DOMAIN workZones) :
                    LET other == Reordered(workZones, f)
                        again == isLocationInWorkZoneOf(other, lat, 0)
                    IN  /\ again.inZone = verdict.inZone
                        /\ ExpectedVerdict(other, again, lat, 0)]_vars

\* a point inside two overlapping active zones of different names: the
\* verdict names the first of them
C35_Witness ==
  /\ last.op = "workZoneCheck"
  /\ Len(workZones) = 2
  /\ workZones[1].name # workZones[2].name
  /\ Containing(workZones, last.latitude, 0) = {1, 2}
  /\ last.body.inZone
  /\ last.body.zoneName = workZones[1].name

\* ------------------------------------------------------- record-status claims
\* C36: no check-in, check-out, modify, addManual or resetCheckout writes the
\* status absent or half_day: every attendance record's status is present or
\* late.
C36_StatusPresentOrLate ==
  \A i \in DOMAIN attendanceRecords :
     attendanceRecords[i].status \in {"present", "late"}

\* a late check-in that was then checked out and reset by the administrator
C36_Witness ==
  /\ last.op = "resetCheckout"
  /\ last.res = "ok"
  /\ attendanceRecords[last.recordId].status = "late"
  /\ attendanceRecords[last.recordId].checkOutTime = NULL
  /\ attendanceModifications[1].previousCheckOut # NULL

\* ---------------------------------------------------- today-lookup claims
\* C37: getTodayAttendance returns undefined, not null, for an employee id
\* that has no attendance record today, such as an id no employee has.
C37_NoRecordIsUndefined ==
  [][\A e \in EmployeeRefs :
       StepOf({"getTodayAttendance"}, e) /\ TodayRows(e) = {}
       => last'.body.type = JsUndefined]_vars

\* ------------------------------------------------------ partial-edit claims
\* C38: a successful modify that supplies only one of newCheckIn /
\* newCheckOut leaves the other time of the record as it was, and the audit
\* row it appends carries the previous value as the new value of the omitted
\* time.
C38_OmittedTimeKept ==
  [][\A id \in DOMAIN attendanceRecords, cin \in OptionalTime,
        cout \in OptionalTime :
       (/\ Modify(Admin, id, cin, cout)
        /\ last'.res = "ok"
        /\ (cin = NULL) # (cout = NULL))
       => LET row == attendanceModifications'[Len(attendanceModifications')]
          IN  IF cout = NULL
              THEN /\ attendanceRecords'[id].checkOutTime
                        = attendanceRecords[id].checkOutTime
                   /\ row.newCheckOut = row.previousCheckOut
              ELSE /\ attendanceRecords'[id].checkInTime
                        = attendanceRecords[id].checkInTime
                   /\ row.newCheckIn = row.previousCheckIn]_vars

\* ------------------------------------------------ concurrent-binding claims
\* C39: registeredDeviceId of an employee changes only from null to a device
\* id or from a device id to null, never from one device id to another, also
\* when two first-use check-ins with different deviceIds overlap.
C39_NoDirectRebind ==
  [][\A e \in Employees :
       registeredDeviceId'[e] # registeredDeviceId[e]
       => \/ registeredDeviceId[e] = NoDevice
          \/ registeredDeviceId'[e] = NoDevice]_vars

\* ------------------------------------------------------ calendar-day claims
\* the organization-local (UTC+3) calendar day of an instant, the day whose
\* minutes the lateness computation reads
LocalDate(t) == (t + TzOffsetMinutes) \div MinutesPerDay

\* no employee has two records whose check-ins fall on one local day
OneRecordPerLocalDay ==
  \A i, j \in DOMAIN attendanceRecords :
     (/\ i # j
      /\ attendanceRecords[i].employeeId = attendanceRecords[j].employeeId
      /\ attendanceRecords[i].checkInTime # NULL
      /\ attendanceRecords[j].checkInTime # NULL)
     => LocalDate(attendanceRecords[i].checkInTime)
          # LocalDate(attendanceRecords[j].checkInTime)

\* C40: the date under which a check-in is stored and looked up is the
\* organization-local day of the check-in: a check-in between 00:00 and 03:00
\* local time is not stored under the previous day, and no employee has two
\* records whose check-ins fall on the same local day.
C40_DateKeyIsLocalDay ==
  /\ \A i \in DOMAIN attendanceRecords :
        attendanceRecords[i].checkInTime # NULL
        => attendanceRecords[i].date
             = LocalDate(attendanceRecords[i].checkInTime)
  /\ OneRecordPerLocalDay

====
